---- MODULE Spec2Model ----
(***************************************************************************)
(* A model of LazyLlama (src/src/app.rs, src/src/main.rs, src/src/ui.rs). *)
(*                                                                         *)
(* A Rust String is a sequence of characters; a character is a token with *)
(* a UTF-8 width (Utf8Len), so that the byte offsets the editor computes   *)
(* are really computed.  The App struct is the record `app`; each method   *)
(* of App is an operator from App records to App records, and a panic of   *)
(* the Rust code sets the field `panicked`.                                *)
(***************************************************************************)
EXTENDS Integers, Sequences, FiniteSets, TLC

VARIABLES
    app,        \* the App struct (src/src/app.rs:52-91)
    pc,         \* where main / send_query stands
    stream,     \* the batches the open stream has delivered so far
    submit0,    \* history and prompt at the start of the current send_query
    submits,    \* number of send_query calls that passed the selection test
    lastOp,     \* the operation that produced the current state
    aux         \* what a scripted scenario or a call has recorded for the check

vars == <<app, pc, stream, submit0, submits, lastOp, aux>>

(***************************************************************************)
(* Bounds                                                                  *)
(***************************************************************************)
MaxInputLen == 3     \* characters in the input, editor specification
MaxPromptLen == 1    \* characters typed into the input, main loop
MaxBatches == 2      \* batches one stream delivers
MaxSubmits == 2      \* exchanges started in one run of main

(***************************************************************************)
(* Characters and strings                                                  *)
(***************************************************************************)
NL == "\n"
\* 'ü' (2 bytes in UTF-8) and the crab emoji (4 bytes) are tokens.
UUml == "u_uml"
Crab == "crab"

Utf8Len(c) == IF c = UUml THEN 2 ELSE IF c = Crab THEN 4 ELSE 1

Min(a, b) == IF a < b THEN a ELSE b
Max(a, b) == IF a > b THEN a ELSE b

RECURSIVE ByteLen(_)
ByteLen(s) == IF s = <<>> THEN 0 ELSE Utf8Len(Head(s)) + ByteLen(Tail(s))

\* All strings over the characters cs of at most n characters.
RECURSIVE StringsUpTo(_, _)
StringsUpTo(cs, n) ==
    IF n = 0 THEN {<<>>}
    ELSE LET shorter == StringsUpTo(cs, n - 1)
         IN shorter \cup {Append(s, c) : s \in {t \in shorter : Len(t) = n - 1}, c \in cs}

IsPrefix(p, s) == Len(p) <= Len(s) /\ SubSeq(s, 1, Len(p)) = p

\* The characters [from, to) of s, 0-based.
Slice(s, from, to) == SubSeq(s, from + 1, to)

\* The character index a byte offset stands for, or -1 when the offset is not
\* a character boundary of s (str::is_char_boundary).
CharBoundary(s, b) ==
    LET ks == {k \in 0..Len(s) : ByteLen(Slice(s, 0, k)) = b}
    IN IF ks = {} THEN -1 ELSE CHOOSE k \in ks : TRUE

\* String::insert(idx, ch): panics unless idx is a character boundary.
StringInsert(s, b, c) ==
    LET k == CharBoundary(s, b)
    IN IF k = -1 THEN [ok |-> FALSE, s |-> s]
       ELSE [ok |-> TRUE, s |-> Slice(s, 0, k) \o <<c>> \o Slice(s, k, Len(s))]

\* String::remove(idx): panics when idx is the end of the string or no boundary.
StringRemove(s, b) ==
    LET k == CharBoundary(s, b)
    IN IF k = -1 \/ k >= Len(s) THEN [ok |-> FALSE, s |-> s]
       ELSE [ok |-> TRUE, s |-> Slice(s, 0, k) \o Slice(s, k + 1, Len(s))]

\* String::replace_range(start..end, ""): panics unless both are boundaries
\* and start <= end.
StringReplaceRangeEmpty(s, b1, b2) ==
    LET k1 == CharBoundary(s, b1)
        k2 == CharBoundary(s, b2)
    IN IF k1 = -1 \/ k2 = -1 \/ k1 > k2 THEN [ok |-> FALSE, s |-> s]
       ELSE [ok |-> TRUE, s |-> Slice(s, 0, k1) \o Slice(s, k2, Len(s))]

(***************************************************************************)
(* HashMap<String, _>                                                      *)
(***************************************************************************)
EmptyMap == [k \in {} |-> 0]
MapInsert(m, k, v) == [x \in (DOMAIN m) \cup {k} |-> IF x = k THEN v ELSE m[x]]
MapGetOr(m, k, d) == IF k \in DOMAIN m THEN m[k] ELSE d
\* entry(k).or_insert(v)
MapOrInsert(m, k, v) == IF k \in DOMAIN m THEN m ELSE MapInsert(m, k, v)

(***************************************************************************)
(* App: construction                                                       *)
(***************************************************************************)
None == -1

\* The struct literal of App::new, before refresh_models.
NewApp ==
    [ models |-> <<>>,
      list_state |-> None,
      input |-> <<>>,
      cursor_pos |-> 0,
      history |-> <<>>,
      model_inputs |-> EmptyMap,
      model_cursors |-> EmptyMap,
      model_histories |-> EmptyMap,
      model_scrolls |-> EmptyMap,
      scroll |-> 0,
      autoscroll |-> TRUE,
      is_loading |-> FALSE,
      cursor_visible |-> TRUE,
      \* last_cursor_blink: FALSE while less than 500 ms have passed since it
      \* was set, TRUE once 500 ms or more have passed.
      blink_due |-> FALSE,
      panicked |-> FALSE ]

Panic(a) == [a EXCEPT !.panicked = TRUE]

(***************************************************************************)
(* App: the text editor                                                    *)
(***************************************************************************)
\* char::is_alphanumeric on the characters of the model: the letters are
\* alphanumeric, the space, the newline, the punctuation and the crab are not.
Alphanumeric ==
    {"a", "b", "h", "i", "x", "y", "z", "A", "I", "O", "U", "Y", UUml,
     "H", "e", "l", "o", "W", "r", "d", "T", "s", "t",
     "S", "w", "c", "u", "f", "n", "m", "D"}

is_word_char(c) == c \in Alphanumeric \/ c = "_"

char_index_to_byte_index(a, char_index) ==
    IF char_index < Len(a.input)
    THEN ByteLen(Slice(a.input, 0, char_index))
    ELSE ByteLen(a.input)

reset_cursor_blink(a) == [a EXCEPT !.cursor_visible = TRUE, !.blink_due = FALSE]

update_cursor_blink(a) ==
    IF a.blink_due
    THEN [a EXCEPT !.cursor_visible = ~a.cursor_visible, !.blink_due = FALSE]
    ELSE a

clamp_cursor(a) ==
    IF a.cursor_pos > Len(a.input) THEN [a EXCEPT !.cursor_pos = Len(a.input)] ELSE a

\* Faulty variant: the cursor is taken for a byte offset.
insert_char_bytepos(a, c) ==
    LET r == StringInsert(a.input, a.cursor_pos, c)
    IN IF ~r.ok THEN Panic(a)
       ELSE reset_cursor_blink([a EXCEPT !.input = r.s, !.cursor_pos = a.cursor_pos + 1])

insert_char(a, c) ==
    LET byte_idx == char_index_to_byte_index(a, a.cursor_pos)
        r == StringInsert(a.input, byte_idx, c)
    IN IF ~r.ok THEN Panic(a)
       ELSE reset_cursor_blink([a EXCEPT !.input = r.s, !.cursor_pos = a.cursor_pos + 1])

\* Faulty variant: the cursor stays where it was.
backspace_keepcursor(a) ==
    IF a.cursor_pos = 0 THEN a
    ELSE LET remove_idx == a.cursor_pos - 1
             byte_idx == char_index_to_byte_index(a, remove_idx)
             r == StringRemove(a.input, byte_idx)
         IN IF ~r.ok THEN Panic(a)
            ELSE reset_cursor_blink([a EXCEPT !.input = r.s])

backspace(a) ==
    IF a.cursor_pos = 0 THEN a
    ELSE LET remove_idx == a.cursor_pos - 1
             byte_idx == char_index_to_byte_index(a, remove_idx)
             r == StringRemove(a.input, byte_idx)
         IN IF ~r.ok THEN Panic(a)
            ELSE reset_cursor_blink([a EXCEPT !.input = r.s, !.cursor_pos = a.cursor_pos - 1])

\* The two loops of the word operations: first over non-word characters, then
\* over word characters.
RECURSIVE SkipLeft(_, _, _)
SkipLeft(chars, i, word) ==
    IF i > 0 /\ (is_word_char(chars[i]) = word) THEN SkipLeft(chars, i - 1, word) ELSE i

RECURSIVE SkipRight(_, _, _)
SkipRight(chars, i, word) ==
    IF i < Len(chars) /\ (is_word_char(chars[i + 1]) = word)
    THEN SkipRight(chars, i + 1, word) ELSE i

\* Faulty variant: the loop over the non-word characters is missing.
WordLeftTarget_wordsonly(a) ==
    SkipLeft(a.input, Min(a.cursor_pos, Len(a.input)), TRUE)

WordLeftTarget(a) ==
    SkipLeft(a.input, SkipLeft(a.input, Min(a.cursor_pos, Len(a.input)), FALSE), TRUE)

WordRightTarget(a) ==
    SkipRight(a.input, SkipRight(a.input, Min(a.cursor_pos, Len(a.input)), FALSE), TRUE)

\* Faulty variant: only the word is removed, not the separators after it.
delete_word_left_wordonly(a) ==
    IF a.cursor_pos = 0 THEN a
    ELSE LET i == WordLeftTarget(a)
             j == SkipLeft(a.input, Min(a.cursor_pos, Len(a.input)), FALSE)
         IN IF i = a.cursor_pos THEN a
            ELSE LET start == char_index_to_byte_index(a, i)
                     end == char_index_to_byte_index(a, j)
                     r == StringReplaceRangeEmpty(a.input, start, end)
                 IN IF ~r.ok THEN Panic(a)
                    ELSE reset_cursor_blink([a EXCEPT !.input = r.s, !.cursor_pos = i])

delete_word_left(a) ==
    IF a.cursor_pos = 0 THEN a
    ELSE LET i == WordLeftTarget(a)
         IN IF i = a.cursor_pos THEN a
            ELSE LET start == char_index_to_byte_index(a, i)
                     end == char_index_to_byte_index(a, a.cursor_pos)
                     r == StringReplaceRangeEmpty(a.input, start, end)
                 IN IF ~r.ok THEN Panic(a)
                    ELSE reset_cursor_blink([a EXCEPT !.input = r.s, !.cursor_pos = i])

\* Faulty variant: the cursor is taken for a byte offset.
delete_forward_bytepos(a) ==
    IF a.cursor_pos >= Len(a.input) THEN a
    ELSE LET r == StringRemove(a.input, a.cursor_pos)
         IN IF ~r.ok THEN Panic(a)
            ELSE reset_cursor_blink([a EXCEPT !.input = r.s])

delete_forward(a) ==
    IF a.cursor_pos >= Len(a.input) THEN a
    ELSE LET byte_idx == char_index_to_byte_index(a, a.cursor_pos)
             r == StringRemove(a.input, byte_idx)
         IN IF ~r.ok THEN Panic(a)
            ELSE reset_cursor_blink([a EXCEPT !.input = r.s])

delete_word_right(a) ==
    IF a.cursor_pos >= Len(a.input) THEN a
    ELSE LET i == WordRightTarget(a)
         IN IF i = a.cursor_pos THEN a
            ELSE LET start == char_index_to_byte_index(a, a.cursor_pos)
                     end == char_index_to_byte_index(a, i)
                     r == StringReplaceRangeEmpty(a.input, start, end)
                 IN IF ~r.ok THEN Panic(a)
                    ELSE reset_cursor_blink([a EXCEPT !.input = r.s])

\* Faulty variant: the blink is not reset.
move_cursor_left_noblink(a) ==
    IF a.cursor_pos > 0 THEN [a EXCEPT !.cursor_pos = a.cursor_pos - 1] ELSE a

move_cursor_left(a) ==
    IF a.cursor_pos > 0
    THEN reset_cursor_blink([a EXCEPT !.cursor_pos = a.cursor_pos - 1]) ELSE a

\* Faulty variant: the end-of-input test is missing.
move_cursor_right_noguard(a) ==
    reset_cursor_blink([a EXCEPT !.cursor_pos = a.cursor_pos + 1])

move_cursor_right(a) ==
    IF a.cursor_pos < Len(a.input)
    THEN reset_cursor_blink([a EXCEPT !.cursor_pos = a.cursor_pos + 1]) ELSE a

move_cursor_home(a) ==
    IF a.cursor_pos # 0 THEN reset_cursor_blink([a EXCEPT !.cursor_pos = 0]) ELSE a

move_cursor_end(a) ==
    IF a.cursor_pos # Len(a.input)
    THEN reset_cursor_blink([a EXCEPT !.cursor_pos = Len(a.input)]) ELSE a

move_cursor_word_left(a) ==
    IF a.cursor_pos = 0 THEN a
    ELSE LET i == WordLeftTarget(a)
         IN IF i # a.cursor_pos THEN reset_cursor_blink([a EXCEPT !.cursor_pos = i]) ELSE a

move_cursor_word_right(a) ==
    LET i == WordRightTarget(a)
    IN IF i # a.cursor_pos THEN reset_cursor_blink([a EXCEPT !.cursor_pos = i]) ELSE a

(***************************************************************************)
(* App: the per-model store                                                *)
(***************************************************************************)
\* self.models.get(index): the model at a 0-based index, when there is one.
HasModelAt(a, index) == index # None /\ index < Len(a.models)
ModelAt(a, index) == a.models[index + 1]

\* Faulty variant: the active scalars are saved into the record of every
\* model that has one.
save_current_model_buffers_allmodels(a) ==
    IF HasModelAt(a, a.list_state)
    THEN LET model == ModelAt(a, a.list_state)
             ks == DOMAIN a.model_inputs \cup {model}
         IN [a EXCEPT !.model_inputs = [k \in ks |-> a.input],
                      !.model_cursors = [k \in ks |-> a.cursor_pos],
                      !.model_histories = [k \in ks |-> a.history],
                      !.model_scrolls = [k \in ks |-> a.scroll]]
    ELSE a

save_current_model_buffers(a) ==
    IF HasModelAt(a, a.list_state)
    THEN LET model == ModelAt(a, a.list_state)
         IN [a EXCEPT !.model_inputs = MapInsert(a.model_inputs, model, a.input),
                      !.model_cursors = MapInsert(a.model_cursors, model, a.cursor_pos),
                      !.model_histories = MapInsert(a.model_histories, model, a.history),
                      !.model_scrolls = MapInsert(a.model_scrolls, model, a.scroll)]
    ELSE a

\* Faulty variant: the transcript is not restored.
load_current_model_buffers_nohistory(a) ==
    IF HasModelAt(a, a.list_state)
    THEN LET model == ModelAt(a, a.list_state)
         IN clamp_cursor([a EXCEPT !.input = MapGetOr(a.model_inputs, model, <<>>),
                                   !.cursor_pos = MapGetOr(a.model_cursors, model, 0),
                                   !.scroll = MapGetOr(a.model_scrolls, model, 0)])
    ELSE a

\* Faulty variant: the scroll offset is not restored.
load_current_model_buffers_noscroll(a) ==
    IF HasModelAt(a, a.list_state)
    THEN LET model == ModelAt(a, a.list_state)
         IN clamp_cursor([a EXCEPT !.input = MapGetOr(a.model_inputs, model, <<>>),
                                   !.cursor_pos = MapGetOr(a.model_cursors, model, 0),
                                   !.history = MapGetOr(a.model_histories, model, <<>>)])
    ELSE a

load_current_model_buffers(a) ==
    IF HasModelAt(a, a.list_state)
    THEN LET model == ModelAt(a, a.list_state)
         IN clamp_cursor([a EXCEPT !.input = MapGetOr(a.model_inputs, model, <<>>),
                                   !.cursor_pos = MapGetOr(a.model_cursors, model, 0),
                                   !.history = MapGetOr(a.model_histories, model, <<>>),
                                   !.scroll = MapGetOr(a.model_scrolls, model, 0)])
    ELSE a

\* Faulty variant: the defaults are inserted over the records that exist.
RECURSIVE EnsureBuffers_overwrite(_, _)
EnsureBuffers_overwrite(a, ms) ==
    IF ms = <<>> THEN a
    ELSE LET model == Head(ms)
         IN EnsureBuffers_overwrite(
                [a EXCEPT !.model_inputs = MapInsert(a.model_inputs, model, <<>>),
                          !.model_cursors = MapInsert(a.model_cursors, model, 0),
                          !.model_histories = MapInsert(a.model_histories, model, <<>>),
                          !.model_scrolls = MapInsert(a.model_scrolls, model, 0)],
                Tail(ms))

\* The for loop of refresh_models: entry(model).or_insert(default) on each map.
RECURSIVE EnsureBuffers(_, _)
EnsureBuffers(a, ms) ==
    IF ms = <<>> THEN a
    ELSE LET model == Head(ms)
         IN EnsureBuffers(
                [a EXCEPT !.model_inputs = MapOrInsert(a.model_inputs, model, <<>>),
                          !.model_cursors = MapOrInsert(a.model_cursors, model, 0),
                          !.model_histories = MapOrInsert(a.model_histories, model, <<>>),
                          !.model_scrolls = MapOrInsert(a.model_scrolls, model, 0)],
                Tail(ms))

\* Faulty variant: a failed listing clears the model list and the selection.
refresh_models_clearonerr(a, listing) ==
    IF ~listing.ok THEN [a EXCEPT !.models = <<>>, !.list_state = None]
    ELSE LET b == EnsureBuffers([a EXCEPT !.models = listing.names], listing.names)
         IN IF b.models # <<>>
            THEN load_current_model_buffers([b EXCEPT !.list_state = 0])
            ELSE b

\* listing is the outcome of list_local_models: [ok |-> FALSE] or
\* [ok |-> TRUE, names |-> the model names].
refresh_models(a, listing) ==
    IF ~listing.ok THEN a
    ELSE LET b == EnsureBuffers([a EXCEPT !.models = listing.names], listing.names)
         IN IF b.models # <<>>
            THEN load_current_model_buffers([b EXCEPT !.list_state = 0])
            ELSE b

\* Faulty variant: no wraparound after the last model.
select_next_model_nowrap(a) ==
    IF a.models = <<>> THEN a
    ELSE LET b == save_current_model_buffers(a)
             i == IF b.list_state # None THEN b.list_state + 1 ELSE 0
         IN load_current_model_buffers([b EXCEPT !.list_state = i])

select_next_model(a) ==
    IF a.models = <<>> THEN a
    ELSE LET b == save_current_model_buffers(a)
             i == IF b.list_state # None
                  THEN (IF b.list_state >= Len(b.models) - 1 THEN 0 ELSE b.list_state + 1)
                  ELSE 0
         IN load_current_model_buffers([b EXCEPT !.list_state = i])

\* Faulty variant: the test for an empty model list is missing.
select_previous_model_noemptytest(a) ==
    LET b == save_current_model_buffers(a)
        i == IF b.list_state # None
             THEN (IF b.list_state = 0 THEN Len(b.models) - 1 ELSE b.list_state - 1)
             ELSE 0
    IN load_current_model_buffers([b EXCEPT !.list_state = i])

select_previous_model(a) ==
    IF a.models = <<>> THEN a
    ELSE LET b == save_current_model_buffers(a)
             i == IF b.list_state # None
                  THEN (IF b.list_state = 0 THEN Len(b.models) - 1 ELSE b.list_state - 1)
                  ELSE 0
         IN load_current_model_buffers([b EXCEPT !.list_state = i])

(***************************************************************************)
(* ui: the height of the parsed history and the scroll offset              *)
(***************************************************************************)
\* The backtick character is a token.
Backtick == "bt"
Fence == <<Backtick, Backtick, Backtick>>

\* \w of the fence pattern, on the characters of the model.
IsRegexWord(c) == is_word_char(c)

\* str::lines().count(): a final line without a newline counts, a final
\* newline opens no further line.
LinesCount(s) ==
    Cardinality({i \in 1..Len(s) : s[i] = NL})
        + (IF Len(s) > 0 /\ s[Len(s)] # NL THEN 1 ELSE 0)

FenceAt(h, p) ==
    /\ p + 3 <= Len(h)
    /\ h[p + 1] = Fence[1] /\ h[p + 2] = Fence[2] /\ h[p + 3] = Fence[3]

RECURSIVE SkipRegexWord(_, _)
SkipRegexWord(h, q) ==
    IF q < Len(h) /\ IsRegexWord(h[q + 1]) THEN SkipRegexWord(h, q + 1) ELSE q

\* Faulty variant: the end of the text closes a block that is still open.
MatchAt_eofcloses(h, p) ==
    IF ~FenceAt(h, p) THEN [ok |-> FALSE]
    ELSE LET q == SkipRegexWord(h, p + 3)
         IN IF ~(q < Len(h) /\ h[q + 1] = NL) THEN [ok |-> FALSE]
            ELSE LET closes == {e \in (q + 1)..Len(h) : FenceAt(h, e)}
                 IN IF closes = {}
                    THEN [ok |-> TRUE, start |-> p, lang |-> Slice(h, p + 3, q),
                          code |-> Slice(h, q + 1, Len(h)), end |-> Len(h)]
                    ELSE LET e == CHOOSE x \in closes : \A y \in closes : x <= y
                         IN [ok |-> TRUE, start |-> p, lang |-> Slice(h, p + 3, q),
                             code |-> Slice(h, q + 1, e), end |-> e + 3]

\* One match of the code block pattern (three backticks, optional \w+, newline,
\* shortest content, three backticks; src/src/ui.rs:326) starting at offset p:
\* [ok, lang_end, code, end], all offsets 0-based.
MatchAt(h, p) ==
    IF ~FenceAt(h, p) THEN [ok |-> FALSE]
    ELSE LET q == SkipRegexWord(h, p + 3)
         IN IF ~(q < Len(h) /\ h[q + 1] = NL) THEN [ok |-> FALSE]
            ELSE LET closes == {e \in (q + 1)..Len(h) : FenceAt(h, e)}
                 IN IF closes = {} THEN [ok |-> FALSE]
                    ELSE LET e == CHOOSE x \in closes : \A y \in closes : x <= y
                         IN [ok |-> TRUE, start |-> p, lang |-> Slice(h, p + 3, q),
                             code |-> Slice(h, q + 1, e), end |-> e + 3]

\* The leftmost match at or after offset from (captures_iter).
NextMatch(h, from) ==
    LET ps == {p \in from..Len(h) : FenceAt(h, p) /\ MatchAt(h, p).ok}
    IN IF ps = {} THEN [ok |-> FALSE]
       ELSE MatchAt(h, CHOOSE x \in ps : \A y \in ps : x <= y)

\* parse_history(history).height(): the number of lines pushed.
RECURSIVE ParsedHeight(_, _)
ParsedHeight(h, last_match_end) ==
    LET m == NextMatch(h, last_match_end)
    IN IF ~m.ok
       THEN (IF last_match_end < Len(h)
             THEN LinesCount(Slice(h, last_match_end, Len(h))) ELSE 0)
       ELSE (IF m.start > last_match_end
             THEN LinesCount(Slice(h, last_match_end, m.start)) ELSE 0)
            + 1 + LinesCount(m.code) + 1
            + ParsedHeight(h, m.end)

\* str::lines(): the text between the newlines; a newline at the end opens no
\* further line.
RECURSIVE SplitLines(_)
SplitLines(s) ==
    IF s = <<>> THEN <<>>
    ELSE LET nls == {i \in 1..Len(s) : s[i] = NL}
         IN IF nls = {} THEN <<s>>
            ELSE LET i == CHOOSE x \in nls : \A y \in nls : x <= y
                 IN <<SubSeq(s, 1, i - 1)>> \o SplitLines(SubSeq(s, i + 1, Len(s)))

\* str::trim and trim_start_matches('#') on the characters of the model, where
\* the space is the only whitespace inside a line.
RECURSIVE TrimStartMatches(_, _)
TrimStartMatches(s, c) ==
    IF s # <<>> /\ Head(s) = c THEN TrimStartMatches(Tail(s), c) ELSE s
RECURSIVE TrimEnd(_)
TrimEnd(s) ==
    IF s # <<>> /\ s[Len(s)] = " " THEN TrimEnd(SubSeq(s, 1, Len(s) - 1)) ELSE s
Trim(s) == TrimEnd(TrimStartMatches(s, " "))

HeaderMark == <<"#", "#", "#">>
YouMark == <<"Y", "O", "U", ":">>
AiMark == <<"A", "I", ":">>
DefaultLang == <<"c", "o", "d", "e">>

\* Faulty variant: the AI label is not recognised.
StyledLine_noailabel(line) ==
    LET trimmed == Trim(line)
    IN IF IsPrefix(HeaderMark, trimmed)
       THEN [kind |-> "bullet", text |-> Trim(TrimStartMatches(trimmed, "#"))]
       ELSE IF IsPrefix(YouMark, line)
       THEN [kind |-> "you", text |-> Slice(line, 4, Len(line))]
       ELSE [kind |-> "plain", text |-> line]

\* One turn of the loop of process_styled_text: the line pushed for a line of
\* plain text, by the kind of its spans and the text after the label.
StyledLine(line) ==
    LET trimmed == Trim(line)
    IN IF IsPrefix(HeaderMark, trimmed)
       THEN [kind |-> "bullet", text |-> Trim(TrimStartMatches(trimmed, "#"))]
       ELSE IF IsPrefix(YouMark, line)
       THEN [kind |-> "you", text |-> Slice(line, 4, Len(line))]
       ELSE IF IsPrefix(AiMark, line)
       THEN [kind |-> "ai", text |-> Slice(line, 3, Len(line))]
       ELSE [kind |-> "plain", text |-> line]

process_styled_text(text, target) ==
    target \o [i \in 1..Len(SplitLines(text)) |-> StyledLine(SplitLines(text)[i])]

\* Faulty variant: the footer line is missing.
CodeBlockLines_nofooter(m) ==
    <<[kind |-> "header", text |-> IF m.lang = <<>> THEN DefaultLang ELSE m.lang]>>
        \o [i \in 1..Len(SplitLines(m.code)) |->
                [kind |-> "body", text |-> SplitLines(m.code)[i]]]

\* Lines 337-353 of parse_history: the lines pushed for one match.
CodeBlockLines(m) ==
    <<[kind |-> "header", text |-> IF m.lang = <<>> THEN DefaultLang ELSE m.lang]>>
        \o [i \in 1..Len(SplitLines(m.code)) |->
                [kind |-> "body", text |-> SplitLines(m.code)[i]]]
        \o <<[kind |-> "footer", text |-> <<>>]>>

\* parse_history from the offset last_match_end on, text being what has been
\* pushed so far.
RECURSIVE ParseFrom(_, _, _)
ParseFrom(h, last_match_end, text) ==
    LET m == NextMatch(h, last_match_end)
    IN IF ~m.ok
       THEN (IF last_match_end < Len(h)
             THEN process_styled_text(Slice(h, last_match_end, Len(h)), text)
             ELSE text)
       ELSE ParseFrom(h, m.end,
                (IF m.start > last_match_end
                 THEN process_styled_text(Slice(h, last_match_end, m.start), text)
                 ELSE text) \o CodeBlockLines(m))

parse_history(history) == ParseFrom(history, 0, <<>>)

U16 == 65536

\* Faulty variant: the offset of a manual scroll is not clamped.
ui_noclamp(a, visible_height) ==
    LET total_lines == ParsedHeight(a.history, 0) % U16
        max_scroll == Max(total_lines - visible_height, 0)
    IN IF a.autoscroll THEN [a EXCEPT !.scroll = max_scroll] ELSE a

\* The part of ui() that writes the App: the scroll offset.  visible_height is
\* chat_chunks[0].height.saturating_sub(2), which the terminal size decides.
ui(a, visible_height) ==
    LET total_lines == ParsedHeight(a.history, 0) % U16
        max_scroll == Max(total_lines - visible_height, 0)
    IN IF a.autoscroll THEN [a EXCEPT !.scroll = max_scroll]
       ELSE IF a.scroll > max_scroll THEN [a EXCEPT !.scroll = max_scroll]
       ELSE a

(***************************************************************************)
(* send_query, cut at its await points                                     *)
(***************************************************************************)
YouLabel == <<NL, "Y", "O", "U", ":", " ">>
AiLabel == <<NL, NL, "A", "I", ":", " ">>
Separator == <<NL, "-", "-", "-", NL>>

\* format!("\nYOU: {}\n\nAI: ", prompt)
PromptBlock(prompt) == YouLabel \o prompt \o AiLabel

\* Faulty variant: the prompt block replaces the transcript.
send_query_begin_overwrite(a) ==
    IF ~HasModelAt(a, a.list_state) THEN Panic(a)
    ELSE LET prompt == a.input
             b == save_current_model_buffers(
                      [a EXCEPT !.history = PromptBlock(prompt),
                                !.input = <<>>,
                                !.cursor_pos = 0])
         IN [b EXCEPT !.is_loading = TRUE, !.autoscroll = TRUE]

\* Faulty variant: the buffers are not saved before the stream is opened.
send_query_begin_nosave(a) ==
    IF ~HasModelAt(a, a.list_state) THEN Panic(a)
    ELSE [a EXCEPT !.history = a.history \o PromptBlock(a.input),
                   !.input = <<>>,
                   !.cursor_pos = 0,
                   !.is_loading = TRUE,
                   !.autoscroll = TRUE]

\* Lines 605-617: from the selection test to the call of generate_stream.
\* Only called with a selection.
send_query_begin(a) ==
    IF ~HasModelAt(a, a.list_state) THEN Panic(a)
    ELSE LET prompt == a.input
             b == save_current_model_buffers(
                      [a EXCEPT !.history = a.history \o PromptBlock(prompt),
                                !.input = <<>>,
                                !.cursor_pos = 0])
         IN [b EXCEPT !.is_loading = TRUE, !.autoscroll = TRUE]

\* Faulty variant: the fragments of a batch are appended last to first.
RECURSIVE push_responses_reversed(_, _)
push_responses_reversed(a, responses) ==
    IF responses = <<>> THEN a
    ELSE [push_responses_reversed(a, Tail(responses))
             EXCEPT !.history = @ \o Head(responses)]

\* Lines 624-626: the fragments of one delivered batch, in order.
RECURSIVE push_responses(_, _)
push_responses(a, responses) ==
    IF responses = <<>> THEN a
    ELSE push_responses([a EXCEPT !.history = a.history \o Head(responses)], Tail(responses))

\* Faulty variant: is_loading is left as it is.
send_query_end_keeploading(a) ==
    save_current_model_buffers([a EXCEPT !.history = a.history \o Separator])

\* Faulty variant: the final save is missing.
send_query_end_nosave(a) ==
    [a EXCEPT !.history = a.history \o Separator, !.is_loading = FALSE]

\* Lines 630-634: after the stream has ended.
send_query_end(a) ==
    save_current_model_buffers(
        [a EXCEPT !.history = a.history \o Separator, !.is_loading = FALSE])

(***************************************************************************)
(* The editor, called in any order (EditorSpec)                            *)
(***************************************************************************)
EdChars == {"a", " ", UUml, Crab}

Call(op, a) ==
    /\ app' = a
    /\ lastOp' = op
    /\ UNCHANGED <<pc, stream, submit0, submits, aux>>

NoSubmit == [history |-> <<>>, prompt |-> <<>>, model |-> "", active |-> FALSE]

EdInit ==
    /\ app \in {[NewApp EXCEPT !.input = s, !.cursor_pos = k,
                               !.cursor_visible = v, !.blink_due = d] :
                    s \in StringsUpTo(EdChars, MaxInputLen), k \in 0..MaxInputLen,
                    v \in BOOLEAN, d \in BOOLEAN}
    /\ app.cursor_pos <= Len(app.input)
    /\ pc = "api"
    /\ stream = <<>>
    /\ submit0 = NoSubmit
    /\ submits = 0
    /\ lastOp = "init"
    /\ aux = 0

EdInsertChar ==
    \E c \in EdChars :
        /\ pc = "api"
        /\ Len(app.input) < MaxInputLen
        /\ Call("insert_char", insert_char(app, c))
EdBackspace ==
    /\ pc = "api"
    /\ Call("backspace", backspace(app))
EdDeleteForward ==
    /\ pc = "api"
    /\ Call("delete_forward", delete_forward(app))
EdDeleteWordLeft ==
    /\ pc = "api"
    /\ Call("delete_word_left", delete_word_left(app))
EdDeleteWordRight ==
    /\ pc = "api"
    /\ Call("delete_word_right", delete_word_right(app))
EdMoveCursorLeft ==
    /\ pc = "api"
    /\ Call("move_cursor_left", move_cursor_left(app))
EdMoveCursorRight ==
    /\ pc = "api"
    /\ Call("move_cursor_right", move_cursor_right(app))
EdMoveCursorHome ==
    /\ pc = "api"
    /\ Call("move_cursor_home", move_cursor_home(app))
EdMoveCursorEnd ==
    /\ pc = "api"
    /\ Call("move_cursor_end", move_cursor_end(app))
EdMoveCursorWordLeft ==
    /\ pc = "api"
    /\ Call("move_cursor_word_left", move_cursor_word_left(app))
EdMoveCursorWordRight ==
    /\ pc = "api"
    /\ Call("move_cursor_word_right", move_cursor_word_right(app))
EdClampCursor ==
    /\ pc = "api"
    /\ Call("clamp_cursor", clamp_cursor(app))
EdUpdateCursorBlink ==
    /\ pc = "api"
    /\ Call("update_cursor_blink", update_cursor_blink(app))
\* 500 ms pass since last_cursor_blink.
EdTimePasses ==
    /\ pc = "api"
    /\ ~app.blink_due
    /\ Call("time", [app EXCEPT !.blink_due = TRUE])

EdNext ==
    \/ EdInsertChar
    \/ EdBackspace
    \/ EdDeleteForward
    \/ EdDeleteWordLeft
    \/ EdDeleteWordRight
    \/ EdMoveCursorLeft
    \/ EdMoveCursorRight
    \/ EdMoveCursorHome
    \/ EdMoveCursorEnd
    \/ EdMoveCursorWordLeft
    \/ EdMoveCursorWordRight
    \/ EdClampCursor
    \/ EdUpdateCursorBlink
    \/ EdTimePasses

EditorSpec == EdInit /\ [][EdNext]_vars

\* C1: under any sequence of editor operations that starts with the cursor
\* inside the input, 0 <= cursor_pos <= char_count(input) after every call
\* (and no call panics on a byte offset).
C1_CursorInRange ==
    /\ 0 <= app.cursor_pos
    /\ app.cursor_pos <= Len(app.input)
    /\ ~app.panicked

\* A word deletion has shortened a multi-byte input and left the cursor at its end.
C1_Witness ==
    /\ lastOp = "delete_word_left"
    /\ app.cursor_pos = Len(app.input)
    /\ Len(app.input) > 0
    /\ ByteLen(app.input) > Len(app.input)

(***************************************************************************)
(* insert_char, backspace and the word operations on given buffers        *)
(* (WordSpec)                                                              *)
(***************************************************************************)
WdChars == {"A", " ", UUml, Crab}
HelloWorldTest ==
    <<"H", "e", "l", "l", "o", " ", "W", "o", "r", "l", "d", " ", "T", "e", "s", "t">>

\* aux: the App before the last call (pre), the character of an insert_char
\* (c), and for a backspace that follows an insert_char the App before that
\* insert_char (undo, before).
WdInit ==
    /\ app \in {[NewApp EXCEPT !.input = s, !.cursor_pos = k] :
                    s \in StringsUpTo(WdChars, MaxInputLen) \cup {HelloWorldTest},
                    k \in 0..Len(HelloWorldTest)}
    /\ app.cursor_pos <= Len(app.input)
    /\ pc = "api"
    /\ stream = <<>>
    /\ submit0 = NoSubmit
    /\ submits = 0
    /\ lastOp = "init"
    /\ aux = [pre |-> app, c |-> "", undo |-> FALSE, before |-> NewApp]

WdCall(op, a, c) ==
    /\ pc = "api"
    /\ app' = a
    /\ lastOp' = op
    /\ aux' = IF op = "backspace" /\ lastOp = "insert_char"
              THEN [pre |-> app, c |-> c, undo |-> TRUE, before |-> aux.pre]
              ELSE [pre |-> app, c |-> c, undo |-> FALSE, before |-> NewApp]
    /\ UNCHANGED <<pc, stream, submit0, submits>>

WdInsertChar ==
    \E c \in WdChars :
        /\ Len(app.input) < MaxInputLen
        /\ WdCall("insert_char", insert_char(app, c), c)
WdBackspace ==
    /\ Len(app.input) <= MaxInputLen
    /\ WdCall("backspace", backspace(app), "")
WdDeleteForward ==
    /\ Len(app.input) <= MaxInputLen
    /\ WdCall("delete_forward", delete_forward(app), "")
WdMoveCursorWordLeft == WdCall("move_cursor_word_left", move_cursor_word_left(app), "")
WdMoveCursorWordRight == WdCall("move_cursor_word_right", move_cursor_word_right(app), "")
WdDeleteWordLeft == WdCall("delete_word_left", delete_word_left(app), "")
WdDeleteWordRight == WdCall("delete_word_right", delete_word_right(app), "")

WdNext ==
    \/ WdInsertChar
    \/ WdBackspace
    \/ WdDeleteForward
    \/ WdMoveCursorWordLeft
    \/ WdMoveCursorWordRight
    \/ WdDeleteWordLeft
    \/ WdDeleteWordRight

WordSpec == WdInit /\ [][WdNext]_vars

\* C16: insert_char(c) and then backspace() give back the input and the
\* cursor from before the insert_char.
C16_InsertBackspace ==
    (lastOp = "backspace" /\ aux.undo) =>
        /\ app.input = aux.before.input
        /\ app.cursor_pos = aux.before.cursor_pos
        /\ ~app.panicked

\* A two-byte character has been inserted between two characters of other
\* widths and removed again.
C16_Witness ==
    /\ lastOp = "backspace"
    /\ aux.undo
    /\ aux.pre.input = <<Crab, UUml, "A">>
    /\ aux.pre.cursor_pos = 2
    /\ app.input = <<Crab, "A">>

\* C17: insert_char(c) on the characters s with the cursor at k gives
\* s[0..k] + c + s[k..] and the cursor k+1, whatever the byte widths; the crab
\* emoji, u-umlaut and A typed into an empty input give three characters and
\* the cursor 3.
C17_InsertIsCharIndexed ==
    lastOp = "insert_char" =>
        LET s == aux.pre.input
            k == aux.pre.cursor_pos
        IN /\ ~app.panicked
           /\ app.input = Slice(s, 0, k) \o <<aux.c>> \o Slice(s, k, Len(s))
           /\ app.cursor_pos = k + 1
           /\ (s = <<Crab, UUml>> /\ k = 2 /\ aux.c = "A") =>
                  (app.input = <<Crab, UUml, "A">> /\ app.cursor_pos = 3)

\* A has been typed after the crab and u-umlaut.
C17_Witness ==
    /\ lastOp = "insert_char"
    /\ aux.c = "A"
    /\ aux.pre.input = <<Crab, UUml>>
    /\ aux.pre.cursor_pos = 2
    /\ app.input = <<Crab, UUml, "A">>
    /\ app.cursor_pos = 3

\* The index reached from k by going back over the non-word characters before
\* k and then over the word characters before them.
WordStartBefore(s, k) ==
    LET t1 == CHOOSE j \in 0..k :
                  /\ j = 0 \/ is_word_char(s[j])
                  /\ \A i \in (j + 1)..k : ~is_word_char(s[i])
    IN CHOOSE j \in 0..t1 :
           /\ j = 0 \/ ~is_word_char(s[j])
           /\ \A i \in (j + 1)..t1 : is_word_char(s[i])

\* The index reached from k by going forward over the non-word characters from
\* k on and then over the word characters after them.
WordEndAfter(s, k) ==
    LET u1 == CHOOSE j \in k..Len(s) :
                  /\ j = Len(s) \/ is_word_char(s[j + 1])
                  /\ \A i \in (k + 1)..j : ~is_word_char(s[i])
    IN CHOOSE j \in u1..Len(s) :
           /\ j = Len(s) \/ ~is_word_char(s[j + 1])
           /\ \A i \in (u1 + 1)..j : is_word_char(s[i])

\* C18: move_cursor_word_left puts the cursor where going back over the
\* non-word characters and then over the word characters ends,
\* move_cursor_word_right where going forward the same way ends; on
\* "Hello World Test" word-left goes 16, 12, 6, 0 and word-right 0, 5, 11, 16;
\* the input is not changed.
C18_WordMoves ==
    LET s == aux.pre.input
        k == aux.pre.cursor_pos
    IN /\ lastOp = "move_cursor_word_left" =>
              /\ app.cursor_pos = WordStartBefore(s, k)
              /\ app.input = s
              /\ s = HelloWorldTest =>
                     /\ k = 16 => app.cursor_pos = 12
                     /\ k = 12 => app.cursor_pos = 6
                     /\ k = 6 => app.cursor_pos = 0
       /\ lastOp = "move_cursor_word_right" =>
              /\ app.cursor_pos = WordEndAfter(s, k)
              /\ app.input = s
              /\ s = HelloWorldTest =>
                     /\ k = 0 => app.cursor_pos = 5
                     /\ k = 5 => app.cursor_pos = 11
                     /\ k = 11 => app.cursor_pos = 16

\* Word-left has gone from 12 to 6 on "Hello World Test".
C18_Witness ==
    /\ lastOp = "move_cursor_word_left"
    /\ app.input = HelloWorldTest
    /\ aux.pre.cursor_pos = 12
    /\ app.cursor_pos = 6

\* C19: delete_word_left removes the characters between the target of
\* move_cursor_word_left and the cursor and puts the cursor on that target;
\* delete_word_right removes the characters between the cursor and the target
\* of move_cursor_word_right and leaves the cursor; nothing else changes.  On
\* "Hello World Test" at 16 delete_word_left gives ("Hello World ", 12) and
\* then ("Hello ", 6).
C19_DeleteWordIsMoveSpan ==
    LET s == aux.pre.input
        k == aux.pre.cursor_pos
    IN /\ lastOp = "delete_word_left" =>
              LET t == move_cursor_word_left(aux.pre).cursor_pos
              IN /\ ~app.panicked
                 /\ app.input = Slice(s, 0, t) \o Slice(s, k, Len(s))
                 /\ app.cursor_pos = t
                 /\ (s = HelloWorldTest /\ k = 16) =>
                        (app.input = Slice(HelloWorldTest, 0, 12) /\ app.cursor_pos = 12)
                 /\ (s = Slice(HelloWorldTest, 0, 12) /\ k = 12) =>
                        (app.input = Slice(HelloWorldTest, 0, 6) /\ app.cursor_pos = 6)
       /\ lastOp = "delete_word_right" =>
              LET t == move_cursor_word_right(aux.pre).cursor_pos
              IN /\ ~app.panicked
                 /\ app.input = Slice(s, 0, k) \o Slice(s, t, Len(s))
                 /\ app.cursor_pos = k

\* delete_word_left has been called on what it left of "Hello World Test".
C19_Witness ==
    /\ lastOp = "delete_word_left"
    /\ aux.pre.input = Slice(HelloWorldTest, 0, 12)
    /\ aux.pre.cursor_pos = 12
    /\ app.input = <<"H", "e", "l", "l", "o", " ">>
    /\ app.cursor_pos = 6

(***************************************************************************)
(* main: the event loop (Spec)                                             *)
(***************************************************************************)
ModelIds == {"m1", "m2", "m3"}
\* What list_local_models can answer at startup.
Listings ==
    {[ok |-> FALSE, names |-> <<>>]} \cup
    {[ok |-> TRUE, names |-> ns] : ns \in {<<>>, <<"m1">>, <<"m1", "m2">>}}
\* The characters the keyboard sends and the heights the chat area can have.
KeyChars == {"h"}
VisibleHeights == {2}
\* What stream.next() can deliver: a failed batch, or a batch of fragments.
Batches ==
    { [ok |-> FALSE, responses |-> <<>>],
      [ok |-> TRUE, responses |-> << <<"x">> >>],
      [ok |-> TRUE, responses |-> << <<"y", NL>>, <<"z">> >>] }

Running == pc \in {"start", "loop", "opening", "streaming", "returned", "shutdown"}

Init ==
    /\ \E listing \in Listings : app = refresh_models(NewApp, listing)
    /\ pc = "start"
    /\ stream = <<>>
    /\ submit0 = NoSubmit
    /\ submits = 0
    /\ lastOp = "new"
    /\ aux = 0

\* terminal.draw(|f| ui(f, app))?: either the frame is drawn and the next
\* program point is reached, or draw fails, before or after ui has run, and
\* the error leaves main.
Draw(a, next, op) ==
    \/ \E vh \in VisibleHeights :
          /\ app' = ui(a, vh)
          /\ pc' = next
          /\ lastOp' = op
    \/ \E vh \in VisibleHeights :
          /\ app' \in {a, ui(a, vh)}
          /\ pc' = "exit_err"
          /\ lastOp' = "draw_failed"

\* Line 104.
InitialDraw ==
    /\ pc = "start"
    /\ Draw(app, "loop", "run")
    /\ UNCHANGED <<stream, submit0, submits, aux>>

\* Line 107: event::poll fails.
PollFails ==
    /\ pc = "loop"
    /\ pc' = "exit_err"
    /\ lastOp' = "poll_failed"
    /\ UNCHANGED <<app, stream, submit0, submits, aux>>

\* Lines 151-154: no event within 100 ms.
PollTimeout ==
    /\ pc = "loop"
    /\ IF app.is_loading
       THEN Draw(app, "loop", "run")
       ELSE UNCHANGED <<app, pc, lastOp>>
    /\ UNCHANGED <<stream, submit0, submits, aux>>

\* Faulty variant: the cleared transcript is not saved.
clear_history_nosave(a) == [a EXCEPT !.history = <<>>, !.scroll = 0, !.autoscroll = TRUE]

\* The arms of the match on the key (lines 110-146), Enter apart.
clear_history(a) ==
    save_current_model_buffers(
        [a EXCEPT !.history = <<>>, !.scroll = 0, !.autoscroll = TRUE])
toggle_autoscroll(a) == [a EXCEPT !.autoscroll = ~a.autoscroll]
page_up(a) == [a EXCEPT !.autoscroll = FALSE, !.scroll = Max(a.scroll - 5, 0)]
page_down(a) == [a EXCEPT !.autoscroll = FALSE, !.scroll = Min(a.scroll + 5, U16 - 1)]
push_char(a, c) == [a EXCEPT !.input = Append(a.input, c)]
pop_char(a) ==
    IF a.input = <<>> THEN a ELSE [a EXCEPT !.input = Slice(a.input, 0, Len(a.input) - 1)]

\* Faulty variant: keys are handled while a stream is being received, too.
KeyBody_midstream(a) ==
    /\ pc \in {"loop", "streaming"}
    /\ Draw(a, pc, "run")
    /\ UNCHANGED <<stream, submit0, submits>>

\* A key event, its arm, and the redraw of line 149.
KeyBody(a) ==
    /\ pc = "loop"
    /\ Draw(a, "loop", "run")
    /\ UNCHANGED <<stream, submit0, submits>>

Key(a) == KeyBody(a) /\ UNCHANGED aux

KeyCtrlQ ==
    /\ pc = "loop"
    /\ Draw(app, "shutdown", "run")
    /\ UNCHANGED <<stream, submit0, submits, aux>>
KeyCtrlC == Key(clear_history(app))
KeyCtrlS == Key(toggle_autoscroll(app))
KeyUp == Key(select_previous_model(app))
KeyDown == Key(select_next_model(app))
KeyPageUp == Key(page_up(app))
KeyPageDown == Key(page_down(app))
KeyChar ==
    \E c \in KeyChars :
        /\ Len(app.input) < MaxPromptLen
        /\ Key(push_char(app, c))
KeyBackspace == Key(pop_char(app))
\* Any other key: the arm `_ => {}`.
KeyOther == Key(app)

\* Line 605: if let Some(i) = self.list_state.selected().
HasSelection(a) == a.list_state # None

\* Faulty variant: the is_loading test is missing.
EnterGuard_noloading(a) == a.input # <<>>

\* Line 135.
EnterGuard(a) == a.input # <<>> /\ ~a.is_loading

\* Enter when send_query is not called, or returns at once for want of a
\* selection (line 605): nothing but the redraw.
KeyEnterNoQuery ==
    /\ ~EnterGuard(app) \/ ~HasSelection(app)
    /\ Key(app)

\* Faulty variant: Enter starts a submit whenever a model is selected, also
\* while a stream is being received.
KeyEnterQueryBody_unguarded ==
    /\ pc \in {"loop", "streaming"}
    /\ HasSelection(app)
    /\ submits < MaxSubmits
    /\ app' = send_query_begin(app)
    /\ pc' = IF app'.panicked THEN "panic" ELSE "opening"
    /\ submit0' = [history |-> app.history, prompt |-> app.input,
                   model |-> IF HasModelAt(app, app.list_state)
                             THEN ModelAt(app, app.list_state) ELSE "",
                   active |-> TRUE]
    /\ submits' = submits + 1
    /\ stream' = <<>>
    /\ lastOp' = "enter"

\* Enter when send_query runs: up to the call of generate_stream.
KeyEnterQueryBody ==
    /\ pc = "loop"
    /\ EnterGuard(app)
    /\ HasSelection(app)
    /\ submits < MaxSubmits
    /\ app' = send_query_begin(app)
    /\ pc' = IF app'.panicked THEN "panic" ELSE "opening"
    /\ submit0' = [history |-> app.history, prompt |-> app.input,
                   model |-> IF HasModelAt(app, app.list_state)
                             THEN ModelAt(app, app.list_state) ELSE "",
                   active |-> TRUE]
    /\ submits' = submits + 1
    /\ stream' = <<>>
    /\ lastOp' = "enter"

KeyEnterQuery == KeyEnterQueryBody /\ UNCHANGED aux

\* Line 620: generate_stream answers with a stream.
OpenOk ==
    /\ pc = "opening"
    /\ pc' = "streaming"
    /\ lastOp' = "open_ok"
    /\ UNCHANGED <<app, stream, submit0, submits, aux>>

\* Line 620: generate_stream fails; `?` returns the error from send_query and
\* line 136 returns it from main.
OpenFails ==
    /\ pc = "opening"
    /\ pc' = "exit_err"
    /\ lastOp' = "open_failed"
    /\ UNCHANGED <<app, stream, submit0, submits, aux>>

\* Lines 622-628: the stream delivers a batch of fragments.
StreamBatch ==
    \E batch \in {b \in Batches : b.ok} :
        /\ pc = "streaming"
        /\ Len(stream) < MaxBatches
        /\ stream' = Append(stream, batch)
        /\ Draw(push_responses(app, batch.responses), "streaming", "batch")
        /\ UNCHANGED <<submit0, submits, aux>>

\* Faulty variant: a failed batch ends the receive loop.
StreamError_endsloop ==
    \E batch \in {b \in Batches : ~b.ok} :
        /\ pc = "streaming"
        /\ Len(stream) < MaxBatches
        /\ stream' = Append(stream, batch)
        /\ app' = send_query_end(app)
        /\ pc' = "returned"
        /\ lastOp' = "batch_error"
        /\ UNCHANGED <<submit0, submits, aux>>

\* Lines 622-623: the stream delivers an error; nothing is done with it.
StreamError ==
    \E batch \in {b \in Batches : ~b.ok} :
        /\ pc = "streaming"
        /\ Len(stream) < MaxBatches
        /\ stream' = Append(stream, batch)
        /\ lastOp' = "batch_error"
        /\ UNCHANGED <<app, pc, submit0, submits, aux>>

\* Lines 630-636: the stream has ended; send_query returns Ok.
StreamEnd ==
    /\ pc = "streaming"
    /\ app' = send_query_end(app)
    /\ pc' = "returned"
    /\ lastOp' = "stream_end"
    /\ UNCHANGED <<stream, submit0, submits, aux>>

\* Line 149 after send_query has returned.
AfterQueryDrawBody ==
    /\ pc = "returned"
    /\ Draw(app, "loop", "run")
    /\ stream' = <<>>
    /\ submit0' = NoSubmit
    /\ UNCHANGED submits

AfterQueryDraw == AfterQueryDrawBody /\ UNCHANGED aux

\* Lines 157-170: the loop has ended.
Shutdown ==
    /\ pc = "shutdown"
    /\ app' = save_current_model_buffers(app)
    /\ pc' = "exit_ok"
    /\ lastOp' = "shutdown"
    /\ UNCHANGED <<stream, submit0, submits, aux>>

Next ==
    \/ InitialDraw
    \/ PollFails
    \/ PollTimeout
    \/ KeyCtrlQ
    \/ KeyCtrlC
    \/ KeyCtrlS
    \/ KeyUp
    \/ KeyDown
    \/ KeyPageUp
    \/ KeyPageDown
    \/ KeyChar
    \/ KeyBackspace
    \/ KeyOther
    \/ KeyEnterNoQuery
    \/ KeyEnterQuery
    \/ OpenOk
    \/ OpenFails
    \/ StreamBatch
    \/ StreamError
    \/ StreamEnd
    \/ AfterQueryDraw
    \/ Shutdown

Spec == Init /\ [][Next]_vars

(***************************************************************************)
(* The frames main draws while the user scrolls and answers arrive        *)
(* (FrameSpec)                                                             *)
(***************************************************************************)
\* What a stream can deliver: text over two lines, a fenced code block.
FrBatches ==
    { << <<"y", NL>>, <<"z">> >>,
      << <<Backtick, Backtick, Backtick, NL>>, <<"x", NL, "y", NL>>,
         <<Backtick, Backtick, Backtick>> >> }
FrameOps == {"initial", "key", "ctrl_c", "ctrl_s", "page_up", "page_down", "batch", "after_query"}

\* terminal.draw(|f| ui(f, app))? on the App a.  aux: the App the frame was
\* drawn from and the height of the chat area.
FrDraw(a, next, op) ==
    \E vh \in VisibleHeights :
        LET drawn == ui(a, vh)
        IN \/ /\ app' = drawn
              /\ pc' = next
              /\ lastOp' = op
              /\ aux' = [a |-> a, vh |-> vh]
           \/ /\ app' \in {a, drawn}
              /\ pc' = "exit_err"
              /\ lastOp' = "draw_failed"
              /\ aux' = aux

FrKey(a, op) ==
    /\ pc = "loop"
    /\ FrDraw(a, "loop", op)
    /\ UNCHANGED <<stream, submit0, submits>>

FrInitialDraw ==
    /\ pc = "start"
    /\ FrDraw(app, "loop", "initial")
    /\ UNCHANGED <<stream, submit0, submits>>
FrKeyChar ==
    \E c \in KeyChars :
        /\ Len(app.input) < MaxPromptLen
        /\ FrKey(push_char(app, c), "key")
FrKeyCtrlC == FrKey(clear_history(app), "ctrl_c")
FrKeyCtrlS == FrKey(toggle_autoscroll(app), "ctrl_s")
FrKeyPageUp == FrKey(page_up(app), "page_up")
FrKeyPageDown == FrKey(page_down(app), "page_down")
FrKeyEnter == KeyEnterQueryBody /\ UNCHANGED aux
FrStreamBatch ==
    \E responses \in FrBatches :
        /\ pc = "streaming"
        /\ Len(stream) < MaxBatches
        /\ stream' = Append(stream, [ok |-> TRUE, responses |-> responses])
        /\ FrDraw(push_responses(app, responses), "streaming", "batch")
        /\ UNCHANGED <<submit0, submits>>
FrAfterQueryDraw ==
    /\ pc = "returned"
    /\ FrDraw(app, "loop", "after_query")
    /\ stream' = <<>>
    /\ submit0' = NoSubmit
    /\ UNCHANGED submits

FrInit ==
    /\ app = refresh_models(NewApp, [ok |-> TRUE, names |-> <<"m1">>])
    /\ pc = "start"
    /\ stream = <<>>
    /\ submit0 = NoSubmit
    /\ submits = 0
    /\ lastOp = "new"
    /\ aux = [a |-> app, vh |-> 0]

FrNext ==
    \/ FrInitialDraw
    \/ FrKeyChar
    \/ FrKeyCtrlC
    \/ FrKeyCtrlS
    \/ FrKeyPageUp
    \/ FrKeyPageDown
    \/ FrKeyEnter
    \/ OpenOk
    \/ OpenFails
    \/ FrStreamBatch
    \/ StreamEnd
    \/ FrAfterQueryDraw

FrameSpec == FrInit /\ [][FrNext]_vars

\* C20: after every frame the scroll offset is at most
\* max(0, total_lines - visible_height); with autoscroll it is that maximum,
\* without autoscroll it is what it was when that is within the range and the
\* maximum otherwise, so PageDown never leaves the view below the bottom.
C20_ScrollClamped ==
    lastOp \in FrameOps =>
        LET a == aux.a
            total_lines == ParsedHeight(a.history, 0) % U16
            max_scroll == IF total_lines > aux.vh THEN total_lines - aux.vh ELSE 0
        IN /\ app.scroll <= max_scroll
           /\ a.autoscroll => app.scroll = max_scroll
           /\ (~a.autoscroll /\ a.scroll <= max_scroll) => app.scroll = a.scroll
           /\ (~a.autoscroll /\ a.scroll > max_scroll) => app.scroll = max_scroll
           /\ app.history = a.history /\ app.autoscroll = a.autoscroll

\* PageDown has asked for an offset below the bottom of a transcript with a
\* code block, and the frame has brought it back to the last full page.
C20_Witness ==
    /\ lastOp = "page_down"
    /\ aux.a.scroll > app.scroll
    /\ app.scroll > 0
    /\ \E p \in 0..Len(app.history) : MatchAt(app.history, p).ok

(***************************************************************************)
(* Claims about the event loop and send_query (Spec)                       *)
(***************************************************************************)
IsSuffix(p, s) == Len(p) <= Len(s) /\ SubSeq(s, Len(s) - Len(p) + 1, Len(s)) = p

RECURSIVE Concat(_)
Concat(ss) == IF ss = <<>> THEN <<>> ELSE Head(ss) \o Concat(Tail(ss))

\* The fragments of the successfully delivered batches, in delivery order.
RECURSIVE Delivered(_)
Delivered(bs) ==
    IF bs = <<>> THEN <<>>
    ELSE (IF Head(bs).ok THEN Concat(Head(bs).responses) ELSE <<>>) \o Delivered(Tail(bs))

Active(a) == <<a.input, a.cursor_pos, a.history, a.scroll>>
HasRecord(a, m) ==
    /\ m \in DOMAIN a.model_inputs
    /\ m \in DOMAIN a.model_cursors
    /\ m \in DOMAIN a.model_histories
    /\ m \in DOMAIN a.model_scrolls
Record(a, m) ==
    <<a.model_inputs[m], a.model_cursors[m], a.model_histories[m], a.model_scrolls[m]>>

\* C4: when the stream cannot be opened, send_query returns its error with
\* is_loading false and with the transcript from before the submit still there.
C4_OpenFailureClearsLoading ==
    lastOp = "open_failed" =>
        /\ ~app.is_loading
        /\ IsPrefix(submit0.history, app.history)

\* C5: a stream that cannot be opened does not end the event loop.
C5_OpenFailureKeepsRunning ==
    lastOp = "open_failed" => Running

\* C6: is_loading is true exactly while an exchange is in flight: false before
\* a submit, true while send_query opens and reads the stream, false once
\* send_query has returned, whichever way.
C6_LoadingIffInFlight ==
    app.is_loading <=> pc \in {"opening", "streaming"}

\* C7: the transcript during and after a submit of prompt p on transcript H is
\* H, the prompt block, the fragments of the batches delivered so far in
\* delivery order, and after the end of the stream the separator; so every
\* redraw shows a prefix of the final transcript.
C7_FragmentsInOrder ==
    submit0.active =>
        LET sofar == submit0.history \o PromptBlock(submit0.prompt) \o Delivered(stream)
        IN /\ pc \in {"opening", "streaming"} => app.history = sofar
           /\ lastOp = "draw_failed" => app.history = sofar
           /\ pc = "returned" => app.history = sofar \o Separator

\* Two different batches have been delivered on top of an earlier transcript.
C7_Witness ==
    /\ pc = "returned"
    /\ submit0.history # <<>>
    /\ Len(stream) = 2
    /\ stream[1].ok /\ stream[2].ok
    /\ stream[1] # stream[2]
    /\ Len(stream[1].responses) = 2

\* C9: when send_query returns after the end of the stream, the separator is
\* the end of the transcript, is_loading is false, and the record of the
\* selected model equals the active input, cursor, transcript and scroll.
C9_CompletionPersisted ==
    pc = "returned" =>
        /\ IsSuffix(Separator, app.history)
        /\ ~app.is_loading
        /\ HasRecord(app, submit0.model)
        /\ ModelAt(app, app.list_state) = submit0.model
        /\ Record(app, submit0.model) = Active(app)

\* A response has been streamed and the exchange has completed.
C9_Witness ==
    /\ pc = "returned"
    /\ Delivered(stream) # <<>>
    /\ app.scroll > 0

\* The transcript of model m: the active one while m is selected, the stored
\* one otherwise; and the stored one.
TranscriptOf(a, m) ==
    IF HasModelAt(a, a.list_state) /\ ModelAt(a, a.list_state) = m
    THEN a.history
    ELSE MapGetOr(a.model_histories, m, <<>>)
StoredTranscript(a, m) == MapGetOr(a.model_histories, m, <<>>)

\* C21: in every step of the event loop (keys, submits, stream batches, model
\* switches) the transcript of each model, active or stored, is extended or
\* left alone, unless the step is Ctrl+C with that model selected.
C21_TranscriptAppendOnly ==
    [][ \A m \in ModelIds :
           \/ /\ IsPrefix(TranscriptOf(app, m), TranscriptOf(app', m))
              /\ IsPrefix(StoredTranscript(app, m), StoredTranscript(app', m))
           \/ /\ KeyCtrlC
              /\ HasModelAt(app, app.list_state)
              /\ ModelAt(app, app.list_state) = m ]_vars

\* A second exchange has been answered on a model whose transcript held a
\* first one, with another model in the list.
C21_Witness ==
    /\ pc = "returned"
    /\ submits = 2
    /\ Len(app.models) = 2
    /\ Delivered(stream) # <<>>
    /\ submit0.history # <<>>
    /\ IsPrefix(submit0.history, app.history)

(***************************************************************************)
(* App called on states built field by field, as the unit tests build     *)
(* them (ApiSpec)                                                          *)
(***************************************************************************)
ApiModelLists == {<<>>, <<"m1">>, <<"m1", "m2">>, <<"m1", "m2", "m3">>}
\* A record as refresh_models creates it, and one that has been used.
ApiRecords == { <<(<<>>), 0, (<<>>), 0>>, <<(<<"b">>), 1, (<<"y">>), 2>> }
Range(seq) == {seq[i] : i \in 1..Len(seq)}

ApiApps ==
    {[NewApp EXCEPT !.models = ms, !.list_state = sel,
                    !.input = t[1], !.cursor_pos = t[2], !.history = t[3], !.scroll = t[4],
                    !.is_loading = ld,
                    !.model_inputs = [m \in dom |-> recs[m][1]],
                    !.model_cursors = [m \in dom |-> recs[m][2]],
                    !.model_histories = [m \in dom |-> recs[m][3]],
                    !.model_scrolls = [m \in dom |-> recs[m][4]]] :
        ms \in ApiModelLists,
        sel \in {None} \cup (0..2),
        t \in {<<(<<>>), 0, (<<>>), 0>>, <<(<<"a">>), 0, (<<"x">>), 3>>,
               <<(<<"a">>), 1, (<<>>), 0>>},
        ld \in BOOLEAN,
        dom \in SUBSET ModelIds,
        recs \in [ModelIds -> ApiRecords]}

ApiInit ==
    /\ app \in ApiApps
    /\ app.list_state = None \/ app.list_state < Len(app.models)
    /\ DOMAIN app.model_inputs \in {{}, Range(app.models), ModelIds}
    /\ pc = "api"
    /\ stream = <<>>
    /\ submit0 = NoSubmit
    /\ submits = 0
    /\ lastOp = "init"
    /\ aux = 0

\* aux: the selection before the call.
ApiSelectNext ==
    /\ pc = "api"
    /\ app' = select_next_model(app)
    /\ lastOp' = "select_next_model"
    /\ aux' = app.list_state
    /\ UNCHANGED <<pc, stream, submit0, submits>>

ApiSelectPrevious ==
    /\ pc = "api"
    /\ app' = select_previous_model(app)
    /\ lastOp' = "select_previous_model"
    /\ aux' = app.list_state
    /\ UNCHANGED <<pc, stream, submit0, submits>>

ApiSave ==
    /\ pc = "api"
    /\ app' = save_current_model_buffers(app)
    /\ lastOp' = "save_current_model_buffers"
    /\ aux' = app.list_state
    /\ UNCHANGED <<pc, stream, submit0, submits>>

ApiLoad ==
    /\ pc = "api"
    /\ app' = load_current_model_buffers(app)
    /\ lastOp' = "load_current_model_buffers"
    /\ aux' = app.list_state
    /\ UNCHANGED <<pc, stream, submit0, submits>>

\* The Enter arm of main (lines 134-138) up to the call of generate_stream,
\* and the redraw of line 149 when send_query has not started an exchange.
ApiEnter ==
    /\ pc = "api"
    /\ aux' = app.list_state
    /\ UNCHANGED <<stream, submit0>>
    /\ IF EnterGuard(app) /\ HasSelection(app)
       THEN /\ submits < MaxSubmits
            /\ app' = send_query_begin(app)
            /\ lastOp' = "enter_opening"
            /\ submits' = submits + 1
            /\ pc' = pc
       ELSE /\ Draw(app, "api", "enter_noop")
            /\ UNCHANGED submits

ApiNext ==
    \/ ApiSelectNext
    \/ ApiSelectPrevious
    \/ ApiSave
    \/ ApiLoad
    \/ ApiEnter

ApiSpec == ApiInit /\ [][ApiNext]_vars

\* C8: Enter is a no-op when no model is selected or when is_loading is true:
\* transcript, input, cursor, is_loading, autoscroll and the store stay as
\* they are and no stream is opened.
C8_SubmitNoOp ==
    [][ (/\ lastOp' \in {"enter_opening", "enter_noop", "draw_failed"}
         /\ (~HasSelection(app) \/ app.is_loading))
        => /\ lastOp' # "enter_opening"
           /\ app'.history = app.history
           /\ app'.input = app.input
           /\ app'.cursor_pos = app.cursor_pos
           /\ app'.is_loading = app.is_loading
           /\ app'.autoscroll = app.autoscroll
           /\ app'.model_inputs = app.model_inputs
           /\ app'.model_cursors = app.model_cursors
           /\ app'.model_histories = app.model_histories
           /\ app'.model_scrolls = app.model_scrolls
           /\ ~app'.panicked ]_vars

\* Enter has been pressed with a prompt typed and a model selected while
\* is_loading was true, and nothing was sent.
C8_Witness ==
    /\ lastOp = "enter_noop"
    /\ app.is_loading
    /\ app.input # <<>>
    /\ HasSelection(app)

\* C10: on a non-empty list of n models, select_next_model moves the selection
\* from i to (i+1) mod n, select_previous_model to (i-1+n) mod n, both select
\* 0 when nothing was selected, and the new selection is a valid index.
C10_CircularSelection ==
    LET n == Len(app.models)
    IN (app.models # <<>> /\ lastOp \in {"select_next_model", "select_previous_model"}) =>
        /\ app.list_state \in 0..(n - 1)
        /\ aux = None => app.list_state = 0
        /\ (aux # None /\ lastOp = "select_next_model")
               => app.list_state = (aux + 1) % n
        /\ (aux # None /\ lastOp = "select_previous_model")
               => app.list_state = (aux - 1 + n) % n

\* select_previous_model has wrapped from the first of three models to the last.
C10_Witness ==
    /\ lastOp = "select_previous_model"
    /\ Len(app.models) = 3
    /\ aux = 0
    /\ app.list_state = 2

\* C11: with an empty model list and no selection, select_next_model,
\* select_previous_model, save_current_model_buffers and
\* load_current_model_buffers return without a panic and leave the selection,
\* the active scalars and the four maps as they were.
C11_EmptyListNoOp ==
    [][ (/\ app.models = <<>>
         /\ app.list_state = None
         /\ lastOp' \in {"select_next_model", "select_previous_model",
                         "save_current_model_buffers", "load_current_model_buffers"})
        => /\ app' = app
           /\ ~app'.panicked ]_vars

\* select_previous_model has been called on an empty list with text typed and
\* records of earlier models still in the maps.
C11_Witness ==
    /\ lastOp = "select_previous_model"
    /\ app.models = <<>>
    /\ app.list_state = None
    /\ aux = None
    /\ app.input # <<>>
    /\ DOMAIN app.model_histories = ModelIds

(***************************************************************************)
(* The store under refreshes, selections and submits, from App::new       *)
(* (StoreSpec)                                                             *)
(***************************************************************************)
\* What list_local_models can answer at any call: an error, no model, one
\* model, one model more.
StListings ==
    {[ok |-> FALSE, names |-> <<>>]} \cup
    {[ok |-> TRUE, names |-> ns] : ns \in {<<>>, <<"m1">>, <<"m1", "m2">>}}

\* What a stream delivers before it ends.
StStreams ==
    { <<>>,
      <<[ok |-> TRUE, responses |-> << <<"x">> >>]>>,
      <<[ok |-> FALSE, responses |-> <<>>],
        [ok |-> TRUE, responses |-> << <<"y", NL>>, <<"z">> >>]>> }

\* Lines 622-629: the loop over the stream, every frame drawn.
RECURSIVE send_query_stream(_, _, _)
send_query_stream(a, batches, visible_height) ==
    IF batches = <<>> THEN a
    ELSE send_query_stream(
             IF Head(batches).ok
             THEN ui(push_responses(a, Head(batches).responses), visible_height)
             ELSE a,
             Tail(batches), visible_height)

\* aux: the App before the call and the answer of list_local_models.
StInit ==
    /\ \E listing \in StListings :
          /\ app = refresh_models(NewApp, listing)
          /\ aux = [pre |-> NewApp, listing |-> listing]
    /\ pc = "api"
    /\ stream = <<>>
    /\ submit0 = NoSubmit
    /\ submits = 0
    /\ lastOp = "refresh_models"

StCall(op, a) ==
    /\ pc = "api"
    /\ app' = a
    /\ lastOp' = op
    /\ aux' = [aux EXCEPT !.pre = app]
    /\ UNCHANGED <<pc, stream, submit0, submits>>

StRefresh ==
    \E listing \in StListings :
        /\ pc = "api"
        /\ app' = refresh_models(app, listing)
        /\ lastOp' = "refresh_models"
        /\ aux' = [pre |-> app, listing |-> listing]
        /\ UNCHANGED <<pc, stream, submit0, submits>>

StSelectNext == StCall("select_next_model", select_next_model(app))
StSelectPrevious == StCall("select_previous_model", select_previous_model(app))

StInsertChar ==
    \E c \in KeyChars :
        /\ Len(app.input) < MaxPromptLen
        /\ StCall("insert_char", insert_char(app, c))

\* send_query without a selection: line 605 fails, Ok(()).
StSubmitNoSelection ==
    /\ ~HasSelection(app)
    /\ StCall("send_query", app)

\* send_query with a selection, as far as it gets: a panic at line 606, an
\* error from generate_stream at line 620, or the whole stream and the end.
StSubmit ==
    /\ pc = "api"
    /\ HasSelection(app)
    /\ submits < MaxSubmits
    /\ LET b == send_query_begin(app)
       IN \/ /\ b.panicked
             /\ app' = b
             /\ pc' = "panic"
             /\ lastOp' = "send_query_panic"
          \/ /\ ~b.panicked
             /\ app' = b
             /\ pc' = pc
             /\ lastOp' = "send_query_err"
          \/ /\ ~b.panicked
             /\ \E batches \in StStreams, vh \in VisibleHeights :
                   app' = send_query_end(send_query_stream(b, batches, vh))
             /\ pc' = pc
             /\ lastOp' = "send_query"
    /\ submits' = submits + 1
    /\ aux' = [aux EXCEPT !.pre = app]
    /\ UNCHANGED <<stream, submit0>>

StNext ==
    \/ StRefresh
    \/ StSelectNext
    \/ StSelectPrevious
    \/ StInsertChar
    \/ StSubmitNoSelection
    \/ StSubmit

StoreSpec == StInit /\ [][StNext]_vars

\* C12: after any sequence of refresh_models, select_next_model,
\* select_previous_model and send_query, the selection is None only when the
\* model list is empty, a selected index is inside the model list, and
\* send_query has not panicked on models[i].
C12_SelectionInRange ==
    /\ app.list_state = None => app.models = <<>>
    /\ app.list_state # None => app.list_state < Len(app.models)
    /\ ~app.panicked

\* C13: a successful refresh_models leaves every record that existed with the
\* same input, cursor, transcript and scroll, and gives every listed model
\* that had none the record ("", 0, "", 0).
C13_RefreshKeepsRecords ==
    (lastOp = "refresh_models" /\ aux.listing.ok) =>
        /\ \A m \in DOMAIN aux.pre.model_inputs :
               m \in DOMAIN app.model_inputs /\ app.model_inputs[m] = aux.pre.model_inputs[m]
        /\ \A m \in DOMAIN aux.pre.model_cursors :
               m \in DOMAIN app.model_cursors /\ app.model_cursors[m] = aux.pre.model_cursors[m]
        /\ \A m \in DOMAIN aux.pre.model_histories :
               m \in DOMAIN app.model_histories
                   /\ app.model_histories[m] = aux.pre.model_histories[m]
        /\ \A m \in DOMAIN aux.pre.model_scrolls :
               m \in DOMAIN app.model_scrolls /\ app.model_scrolls[m] = aux.pre.model_scrolls[m]
        /\ \A m \in Range(aux.listing.names) \ DOMAIN aux.pre.model_inputs :
               HasRecord(app, m) /\ Record(app, m) = <<(<<>>), 0, (<<>>), 0>>

\* A refresh has listed a new model next to one whose record holds a transcript.
C13_Witness ==
    /\ lastOp = "refresh_models"
    /\ aux.listing.ok
    /\ \E m \in DOMAIN aux.pre.model_histories :
           /\ aux.pre.model_histories[m] # <<>>
           /\ aux.pre.model_scrolls[m] > 0
           /\ m \in Range(aux.listing.names)
    /\ \E m \in Range(aux.listing.names) : m \notin DOMAIN aux.pre.model_inputs

\* C14: when the listing fails, refresh_models leaves the model list, the
\* selection, the four maps and the active scalars as they were.
C14_FailedRefreshChangesNothing ==
    (lastOp = "refresh_models" /\ ~aux.listing.ok) => app = aux.pre

\* The listing has failed with two models listed, the second selected and a
\* transcript on the screen.
C14_Witness ==
    /\ lastOp = "refresh_models"
    /\ ~aux.listing.ok
    /\ Len(app.models) = 2
    /\ app.list_state = 1
    /\ app.history # <<>>

\* C15: a successful refresh_models selects the first model only when no
\* model was selected; a selection that exists is kept.
C15_RefreshKeepsSelection ==
    (lastOp = "refresh_models" /\ aux.listing.ok) =>
        /\ aux.pre.list_state # None => app.list_state = aux.pre.list_state
        /\ (aux.pre.list_state = None /\ aux.listing.names # <<>>) => app.list_state = 0

(***************************************************************************)
(* The round trip of test_model_buffer_save_load (RoundTripSpec)          *)
(***************************************************************************)
RtScalars ==
    {<<(<<>>), 0, (<<>>), 0>>, <<(<<"a">>), 0, (<<"x">>), 3>>,
     <<(<<"a", UUml>>), 2, (<<"x">>), 0>>, <<(<<UUml>>), 1, (<<"y">>), 1>>}

WithScalars(a, t) ==
    [a EXCEPT !.input = t[1], !.cursor_pos = t[2], !.history = t[3], !.scroll = t[4]]

\* aux: the step of the round trip, the selection and the active scalars at
\* the save.
RtInit ==
    /\ app \in ApiApps
    /\ Len(app.models) >= 2
    /\ app.list_state # None /\ app.list_state < Len(app.models)
    /\ DOMAIN app.model_inputs \in {{}, Range(app.models)}
    /\ pc = "api"
    /\ stream = <<>>
    /\ submit0 = NoSubmit
    /\ submits = 0
    /\ lastOp = "init"
    /\ aux = [step |-> "start", selected |-> None, saved |-> <<>>]

RtStep(from, to, a, op) ==
    /\ pc = "api"
    /\ aux.step = from
    /\ app' = a
    /\ lastOp' = op
    /\ aux' = IF from = "start"
              THEN [step |-> to, selected |-> app.list_state, saved |-> Active(app)]
              ELSE [aux EXCEPT !.step = to]
    /\ UNCHANGED <<pc, stream, submit0, submits>>

\* The active scalars are set to any values with the cursor inside the input.
RtSetScalars ==
    \E t \in RtScalars : RtStep("start", "start", WithScalars(app, t), "set")

RtSave == RtStep("start", "saved", save_current_model_buffers(app), "save")

\* list_state.select(Some(j)) for another model j.
RtSelectOther ==
    \E j \in 0..(Len(app.models) - 1) :
        /\ j # aux.selected
        /\ RtStep("saved", "away", [app EXCEPT !.list_state = j], "select")

\* Another model is selected with the arrow keys' methods.
RtSwitchOther ==
    \E a \in {select_next_model(app), select_previous_model(app)} :
        /\ a.list_state # aux.selected
        /\ RtStep("saved", "away", a, "switch")

RtChange ==
    \E t \in RtScalars : RtStep("away", "changed", WithScalars(app, t), "change")

RtReselect ==
    RtStep("changed", "back", [app EXCEPT !.list_state = aux.selected], "select")

RtLoad == RtStep("back", "loaded", load_current_model_buffers(app), "load")

RtNext ==
    \/ RtSetScalars
    \/ RtSave
    \/ RtSelectOther
    \/ RtSwitchOther
    \/ RtChange
    \/ RtReselect
    \/ RtLoad

RoundTripSpec == RtInit /\ [][RtNext]_vars

\* C2: the active input, cursor, transcript and scroll saved for a model are
\* the active ones again after another model was selected, all four were
\* changed, the model was selected again and its buffers were loaded.
C2_SaveLoadRoundTrip ==
    aux.step = "loaded" =>
        /\ Active(app) = aux.saved
        /\ app.list_state = aux.selected

\* The round trip has restored a non-empty tuple over changed scalars.
C2_Witness ==
    /\ aux.step = "loaded"
    /\ aux.saved = <<(<<"a", UUml>>), 2, (<<"x">>), 0>>
    /\ lastOp = "load"

(***************************************************************************)
(* Two models, one exchange, a switch away and back (ScenarioSpec)        *)
(***************************************************************************)
Hi == <<"h", "i">>

\* aux: the step of the scenario and the batches the exchange delivered.
ScInit ==
    /\ app = refresh_models(NewApp, [ok |-> TRUE, names |-> <<"m1", "m2">>])
    /\ pc = "start"
    /\ stream = <<>>
    /\ submit0 = NoSubmit
    /\ submits = 0
    /\ lastOp = "new"
    /\ aux = [step |-> "typing", stream |-> <<>>]

\* The prompt is typed key by key.
ScType ==
    /\ aux.step = "typing"
    /\ app.input # Hi
    /\ KeyBody(push_char(app, Hi[Len(app.input) + 1]))
    /\ UNCHANGED aux

ScEnter ==
    /\ aux.step = "typing"
    /\ app.input = Hi
    /\ KeyEnterQueryBody
    /\ aux' = [aux EXCEPT !.step = "submitted"]

ScAfterQueryDraw ==
    /\ aux.step = "submitted"
    /\ AfterQueryDrawBody
    /\ aux' = [step |-> "answered", stream |-> stream]

\* Up or Down: with two models both select the other one.
ScSwitchAway ==
    /\ aux.step = "answered"
    /\ \E a \in {select_next_model(app), select_previous_model(app)} : KeyBody(a)
    /\ aux' = [aux EXCEPT !.step = "at_m2"]

ScSwitchBack ==
    /\ aux.step = "at_m2"
    /\ \E a \in {select_next_model(app), select_previous_model(app)} : KeyBody(a)
    /\ aux' = [aux EXCEPT !.step = "back_m1"]

ScNext ==
    \/ InitialDraw
    \/ ScType
    \/ ScEnter
    \/ OpenOk
    \/ OpenFails
    \/ StreamBatch
    \/ StreamError
    \/ StreamEnd
    \/ ScAfterQueryDraw
    \/ ScSwitchAway
    \/ ScSwitchBack
    \/ KeyCtrlS
    \/ KeyPageUp
    \/ KeyPageDown

ScenarioSpec == ScInit /\ [][ScNext]_vars

\* C3: whatever scrolling goes on in between, after "hi" has been submitted to m1 and answered, m2 shows an empty
\* input and an empty transcript, and back on m1 the transcript is the prompt
\* block of "hi", the streamed fragments and the separator.
C3_SwitchAwayAndBack ==
    /\ (aux.step = "at_m2" /\ pc = "loop") =>
           /\ app.list_state = 1
           /\ app.input = <<>>
           /\ app.history = <<>>
    /\ (aux.step = "back_m1" /\ pc = "loop") =>
           /\ app.list_state = 0
           /\ app.history = PromptBlock(Hi) \o Delivered(aux.stream) \o Separator

\* m1 is selected again after an answer of two batches.
C3_Witness ==
    /\ aux.step = "back_m1"
    /\ pc = "loop"
    /\ Len(aux.stream) = 2
    /\ aux.stream[1].ok /\ aux.stream[2].ok
    /\ app.history # <<>>

MaxPieces == 5

PsPieces == {Fence, <<NL>>, <<"r">>, <<" ">>, AiMark, YouMark, HeaderMark}

RECURSIVE PsTranscripts(_)
PsTranscripts(n) ==
    IF n = 0 THEN {<<>>}
    ELSE PsTranscripts(n - 1) \cup {t \o p : t \in PsTranscripts(n - 1), p \in PsPieces}

\* "YOU: Show code\nAI: ```rust\nfn main(){}\n```\nDone"
ShowCode ==
    YouMark \o <<" ", "S", "h", "o", "w", " ", "c", "o", "d", "e", NL>>
        \o AiMark \o <<" ">> \o Fence \o <<"r", "u", "s", "t", NL>>
        \o <<"f", "n", " ", "m", "a", "i", "n", "(", ")", "{", "}", NL>>
        \o Fence \o <<NL, "D", "o", "n", "e">>

\* "```rust\nfn main() {" (test_code_block_edge_cases): a fence that is never closed.
OpenFence ==
    Fence \o <<"r", "u", "s", "t", NL, "f", "n", " ", "m", "a", "i", "n", "(", ")", " ", "{">>

\* Two blocks, the second of two lines and without a language, then a fence
\* that is never closed.
TwoBlocks ==
    <<"r", NL>> \o Fence \o <<"r", NL, "r", NL>> \o Fence \o <<NL>>
        \o Fence \o <<NL, "r", NL, " ", "r", NL>> \o Fence \o <<NL, "r">> \o Fence \o <<"r">>

PsExamples == {ShowCode, OpenFence, TwoBlocks}

PsInit ==
    /\ app \in {[NewApp EXCEPT !.history = h] : h \in PsTranscripts(MaxPieces) \cup PsExamples}
    /\ pc = "api"
    /\ stream = <<>>
    /\ submit0 = NoSubmit
    /\ submits = 0
    /\ lastOp = "init"
    /\ aux = [text |-> <<>>]

\* let text = parse_history(&app.history), kept for inspection.
PsParseHistory ==
    /\ pc = "api"
    /\ lastOp' = "parse_history"
    /\ aux' = [text |-> parse_history(app.history)]
    /\ UNCHANGED <<app, pc, stream, submit0, submits>>

\* One frame drawn from the transcript.
PsUi ==
    /\ pc = "api"
    /\ \E vh \in VisibleHeights : app' = ui(app, vh)
    /\ lastOp' = "ui"
    /\ UNCHANGED <<pc, stream, submit0, submits, aux>>

PsNext ==
    \/ PsParseHistory
    \/ PsUi

ParseSpec == PsInit /\ [][PsNext]_vars

\* The matches of the code block pattern in h from offset from on, in order.
RECURSIVE AllMatches(_, _)
AllMatches(h, from) ==
    LET m == NextMatch(h, from)
    IN IF ~m.ok THEN <<>> ELSE <<m>> \o AllMatches(h, m.end)

LastMatchEnd(h) ==
    IF AllMatches(h, 0) = <<>> THEN 0 ELSE AllMatches(h, 0)[Len(AllMatches(h, 0))].end

IsFrameLine(l) == l.kind \in {"header", "body", "footer"}

\* A fence after the last complete block: it opens a block that is never closed.
Unterminated(h) == \E p \in LastMatchEnd(h)..Len(h) : FenceAt(h, p)

FenceStarts(h) == {p \in 0..Len(h) : FenceAt(h, p)}

\* C22: when a transcript holds an opening fence with no closing fence before
\* its end, parse_history frames no block for it. With a single fence in the
\* whole transcript the outcome is the transcript styled line by line as plain
\* text; in general there are as many header lines as complete blocks, and the
\* text from the end of the last complete block on, the open fence included,
\* comes out as the last lines, one styled plain line per line of that text.
C22_UnterminatedFenceIsPlainText ==
    LET h == app.history
        text == aux.text
    IN /\ (lastOp = "parse_history" /\ Cardinality(FenceStarts(h)) = 1) =>
              /\ Len(text) = Len(SplitLines(h))
              /\ \A i \in 1..Len(text) :
                     ~IsFrameLine(text[i]) /\ text[i] = StyledLine(SplitLines(h)[i])
       /\ (lastOp = "parse_history" /\ Unterminated(h)) =>
              LET rest == Slice(h, LastMatchEnd(h), Len(h))
                  n == Len(SplitLines(rest))
              IN /\ Len(SelectSeq(text, LAMBDA l : l.kind = "header")) = Len(AllMatches(h, 0))
                 /\ Len(text) >= n
                 /\ \A i \in 1..n :
                        /\ ~IsFrameLine(text[Len(text) - n + i])
                        /\ text[Len(text) - n + i] = StyledLine(SplitLines(rest)[i])

\* An unterminated fence after a complete block, and the open fence of the tests.
C22_Witness ==
    /\ lastOp = "parse_history"
    /\ app.history = TwoBlocks
    /\ Unterminated(app.history)
    /\ Len(AllMatches(app.history, 0)) = 2
    /\ aux.text[Len(aux.text)].kind = "plain"

\* What the claim expects for the blocks ms: per block a header with the
\* language (or "code"), one body line per line of its content, and a footer.
RECURSIVE ExpectedFrames(_)
ExpectedFrames(ms) ==
    IF ms = <<>> THEN <<>>
    ELSE LET m == Head(ms)
             k == LinesCount(m.code)
         IN <<[kind |-> "header",
               text |-> IF m.lang = <<>> THEN <<"c", "o", "d", "e">> ELSE m.lang]>>
            \o [i \in 1..k |-> [kind |-> "body", text |-> SplitLines(m.code)[i]]]
            \o <<[kind |-> "footer", text |-> <<>>]>>
            \o ExpectedFrames(Tail(ms))

RECURSIVE SumFrameLines(_)
SumFrameLines(ms) ==
    IF ms = <<>> THEN 0 ELSE LinesCount(Head(ms).code) + 2 + SumFrameLines(Tail(ms))

\* C23: every matched code block comes out as a header line with its language
\* tag ("code" without one), one body line per line of its content, and a
\* footer line, in the order of the blocks; a block of k lines adds k + 2 to
\* the number of lines, which is the number the frame clamps the scroll with.
C23_BlockIsHeaderBodyFooter ==
    LET h == app.history
        ms == AllMatches(h, 0)
    IN /\ lastOp = "parse_history" =>
              /\ SelectSeq(aux.text, IsFrameLine) = ExpectedFrames(ms)
              /\ Len(aux.text)
                     = Len(SelectSeq(aux.text, LAMBDA l : ~IsFrameLine(l))) + SumFrameLines(ms)
              /\ ParsedHeight(h, 0) = Len(aux.text)
       /\ lastOp = "ui" =>
              \E vh \in VisibleHeights :
                  app.scroll = Max(0, Len(parse_history(h)) - vh)

\* Two blocks, "r" with one line and one without a language with two lines,
\* between plain lines: 1 + 3 + 1 + 4 + 2 lines.
C23_Witness ==
    /\ lastOp = "parse_history"
    /\ app.history = TwoBlocks
    /\ Len(aux.text) = 11
    /\ aux.text[2] = [kind |-> "header", text |-> <<"r">>]
    /\ aux.text[3] = [kind |-> "body", text |-> <<"r">>]
    /\ aux.text[4].kind = "footer"
    /\ aux.text[6] = [kind |-> "header", text |-> <<"c", "o", "d", "e">>]
    /\ aux.text[7] = [kind |-> "body", text |-> <<"r">>]
    /\ aux.text[8] = [kind |-> "body", text |-> <<" ", "r">>]
    /\ aux.text[9].kind = "footer"

Kinds(text) == [i \in 1..Len(text) |-> text[i].kind]

\* C24: rendering "YOU: Show code\nAI: ```rust\nfn main(){}\n```\nDone"
\* yields, in order: a labeled "YOU:" line, a labeled "AI:" line holding what
\* precedes the fence on its line, a header line with "rust", one body line
\* for the one line of the block, a footer line, an empty plain line for the
\* newline after the closing fence, and a plain "Done" line.
C24_ShowCodeRendering ==
    (lastOp = "parse_history" /\ app.history = ShowCode) =>
        aux.text = << [kind |-> "you", text |-> <<" ", "S", "h", "o", "w", " ", "c", "o", "d", "e">>],
                      [kind |-> "ai", text |-> <<" ">>],
                      [kind |-> "header", text |-> <<"r", "u", "s", "t">>],
                      [kind |-> "body",
                       text |-> <<"f", "n", " ", "m", "a", "i", "n", "(", ")", "{", "}">>],
                      [kind |-> "footer", text |-> <<>>],
                      [kind |-> "plain", text |-> <<>>],
                      [kind |-> "plain", text |-> <<"D", "o", "n", "e">>] >>

\* The statement as written: no labeled "AI:" line, and the plain "Done" line
\* directly after the footer.
C24_NoAiLineDoneDirectly ==
    (lastOp = "parse_history" /\ app.history = ShowCode) =>
        /\ \A i \in 1..Len(aux.text) : aux.text[i].kind # "ai"
        /\ Kinds(aux.text) = <<"you", "header", "body", "footer", "plain">>
        /\ aux.text[Len(aux.text)].text = <<"D", "o", "n", "e">>

C24_Witness ==
    /\ lastOp = "parse_history"
    /\ app.history = ShowCode
    /\ Len(aux.text) = 7
    /\ Kinds(aux.text) = <<"you", "ai", "header", "body", "footer", "plain", "plain">>

\* ------------------------------------------------------------------------
\* utils.rs: writing the transcripts to files. The file system and the clock
\* are the environment env of a call: whether the data directory is found and
\* created (dir), the timestamp (ts), the order in which the HashMap is
\* iterated (order) and the names whose fs::write fails (fail).
\* ------------------------------------------------------------------------

\* Faulty variant: only the colon is replaced.
Sanitize_colononly(model_name) ==
    [i \in 1..Len(model_name) |-> IF model_name[i] = ":" THEN "_" ELSE model_name[i]]

\* model_name.replace([':', '/', '\\'], "_")
Sanitize(model_name) ==
    [i \in 1..Len(model_name) |->
        IF model_name[i] \in {":", "/", "\\"} THEN "_" ELSE model_name[i]]

\* format!("{}_{}.txt", safe_model_name, timestamp)
FileName(model_name, ts) == Sanitize(model_name) \o <<"_", ts, ".txt">>

\* The loop of save_model_histories from the i-th entry on: files is the
\* directory so far, log the calls of fs::write so far.
RECURSIVE WriteLoop(_, _, _, _, _)
WriteLoop(model_histories, env, i, files, log) ==
    IF i > Len(env.order) THEN [result |-> "ok", files |-> files, log |-> log]
    ELSE LET model_name == env.order[i]
             history == model_histories[model_name]
             file_path == FileName(model_name, env.ts)
         IN IF history = <<>>
            THEN WriteLoop(model_histories, env, i + 1, files, log)
            ELSE IF model_name \in env.fail
            THEN [result |-> "err", files |-> files,
                  log |-> Append(log, [name |-> model_name, path |-> file_path,
                                       content |-> history, ok |-> FALSE])]
            ELSE WriteLoop(model_histories, env, i + 1, MapInsert(files, file_path, history),
                           Append(log, [name |-> model_name, path |-> file_path,
                                        content |-> history, ok |-> TRUE]))

save_model_histories(model_histories, env) ==
    IF ~env.dir THEN [result |-> "err", files |-> EmptyMap, log |-> <<>>]
    ELSE WriteLoop(model_histories, env, 1, EmptyMap, <<>>)

\* save_history_to_file: nothing to do for an empty history; else the
\* directory and one write, each of which may fail.
save_history_to_file(history, env) ==
    IF history = <<>> THEN [result |-> "ok", written |-> FALSE]
    ELSE IF ~env.dir THEN [result |-> "err", written |-> FALSE]
    ELSE IF env.fail # {} THEN [result |-> "err", written |-> FALSE]
    ELSE [result |-> "ok", written |-> TRUE]

\* save_model_histories called on maps over three model names, among them
\* the name of test_model_name_sanitization in short.
ColonName == <<"a", ":", "b">>
SlashName == <<"a", "/", "b">>
InvalidName == <<"i", "/", "m", ":", "n", "\\", "t">>
PmNames == {ColonName, SlashName, InvalidName}
PmHistories == {<<>>, <<"x">>, <<"y">>}
PmMaps == UNION {[names -> PmHistories] : names \in SUBSET PmNames}
Timestamps == {"t1", "t2"}

Orders(S) ==
    {o \in [1..Cardinality(S) -> S] : \A i, j \in 1..Cardinality(S) : i # j => o[i] # o[j]}

PmInit ==
    /\ app = NewApp
    /\ pc = "api"
    /\ stream = <<>>
    /\ submit0 = NoSubmit
    /\ submits = 0
    /\ lastOp = "init"
    /\ \E mh \in PmMaps :
           aux = [model_histories |-> mh, env |-> [dir |-> TRUE], out |-> [result |-> "none"]]

PmSaveModelHistories ==
    /\ pc = "api"
    /\ lastOp = "init"
    /\ \E dir \in BOOLEAN, ts \in Timestamps,
          order \in Orders(DOMAIN aux.model_histories),
          fail \in SUBSET (DOMAIN aux.model_histories) :
           LET env == [dir |-> dir, ts |-> ts, order |-> order, fail |-> fail]
           IN aux' = [aux EXCEPT !.env = env,
                                 !.out = save_model_histories(aux.model_histories, env)]
    /\ lastOp' = "save_model_histories"
    /\ UNCHANGED <<app, pc, stream, submit0, submits>>

PmNext == PmSaveModelHistories

PersistSpec == PmInit /\ [][PmNext]_vars

NonEmptyNames(mh) == {n \in DOMAIN mh : mh[n] # <<>>}

\* C25: a call of save_model_histories in which nothing fails calls fs::write
\* exactly once for every map entry with a non-empty history and never for an
\* entry with an empty one, with the history as content; the file name is the
\* model name with every ':', '/' and '\' replaced by '_', then '_', the one
\* timestamp of the call, and ".txt".
C25_OneFilePerNonEmptyEntry ==
    (lastOp = "save_model_histories" /\ aux.out.result = "ok") =>
        LET mh == aux.model_histories
            log == aux.out.log
        IN /\ Len(log) = Cardinality(NonEmptyNames(mh))
           /\ {log[i].name : i \in 1..Len(log)} = NonEmptyNames(mh)
           /\ \A i \in 1..Len(log) :
                  /\ log[i].ok
                  /\ Len(log[i].path) = Len(log[i].name) + 3
                  /\ \A j \in 1..Len(log[i].name) :
                         log[i].path[j] = IF log[i].name[j] \in {":", "/", "\\"}
                                          THEN "_" ELSE log[i].name[j]
                  /\ SubSeq(log[i].path, Len(log[i].name) + 1, Len(log[i].path))
                         = <<"_", aux.env.ts, ".txt">>
                  /\ log[i].content = mh[log[i].name]
           /\ DOMAIN aux.out.files = {log[i].path : i \in 1..Len(log)}

\* The name with all three characters is written, an entry with an empty
\* history is not.
C25_Witness ==
    /\ lastOp = "save_model_histories"
    /\ aux.out.result = "ok"
    /\ DOMAIN aux.model_histories = PmNames
    /\ aux.model_histories[InvalidName] = <<"x">>
    /\ aux.model_histories[ColonName] = <<"y">>
    /\ aux.model_histories[SlashName] = <<>>
    /\ Len(aux.out.log) = 2
    /\ <<"i", "_", "m", "_", "n", "_", "t", "_", "t2", ".txt">> \in DOMAIN aux.out.files

\* C26: when the write of one model's file fails, the files of the other
\* models with a non-empty history are written all the same.
C26_ContinuesAfterFailedWrite ==
    (lastOp = "save_model_histories" /\ aux.env.dir) =>
        \A n \in NonEmptyNames(aux.model_histories) \ aux.env.fail :
            \E i \in 1..Len(aux.out.log) : aux.out.log[i].name = n /\ aux.out.log[i].ok

\* ------------------------------------------------------------------------
\* main from its first line to its return: terminal set-up, the loop, and the
\* teardown and persistence of lines 157-170 statement by statement. aux is
\* the terminal and the file system as main leaves them: raw_enabled and
\* alt_entered once lines 94 and 96 have taken effect, disabled and left once
\* disable_raw_mode and LeaveAlternateScreen have been executed, persist1 and
\* persist2 the outcomes of the two calls of lines 168 and 169.
\* ------------------------------------------------------------------------
LfInit ==
    /\ app = NewApp
    /\ pc = "enable_raw_mode"
    /\ stream = <<>>
    /\ submit0 = NoSubmit
    /\ submits = 0
    /\ lastOp = "main"
    /\ aux = [raw_enabled |-> FALSE, alt_entered |-> FALSE, disabled |-> FALSE,
              left |-> FALSE, persist1 |-> "none", persist2 |-> "none"]

\* Line 94.
LfEnableRawMode ==
    /\ pc = "enable_raw_mode"
    /\ \/ /\ aux' = [aux EXCEPT !.raw_enabled = TRUE]
          /\ pc' = "enter_alternate_screen"
          /\ lastOp' = "raw"
       \/ /\ pc' = "exit_err"
          /\ lastOp' = "raw_failed"
          /\ UNCHANGED aux
    /\ UNCHANGED <<app, stream, submit0, submits>>

\* Lines 95-98: the alternate screen is entered and the terminal made, or
\* one of the two fails; the failed execute! may have switched screens already.
LfEnterAlternateScreen ==
    /\ pc = "enter_alternate_screen"
    /\ \/ /\ aux' = [aux EXCEPT !.alt_entered = TRUE]
          /\ pc' = "new"
          /\ lastOp' = "alt"
       \/ /\ \E entered \in BOOLEAN : aux' = [aux EXCEPT !.alt_entered = entered]
          /\ pc' = "exit_err"
          /\ lastOp' = "alt_failed"
    /\ UNCHANGED <<app, stream, submit0, submits>>

\* Line 100: App::new().await.
LfAppNew ==
    /\ pc = "new"
    /\ \E listing \in Listings : app' = refresh_models(NewApp, listing)
    /\ pc' = "start"
    /\ lastOp' = "new"
    /\ UNCHANGED <<stream, submit0, submits, aux>>

\* Line 157.
LfDisableRawMode ==
    /\ pc = "shutdown"
    /\ \/ /\ aux' = [aux EXCEPT !.disabled = TRUE]
          /\ pc' = "leave_alternate_screen"
          /\ lastOp' = "disable"
       \/ /\ pc' = "exit_err"
          /\ lastOp' = "disable_failed"
          /\ UNCHANGED aux
    /\ UNCHANGED <<app, stream, submit0, submits>>

\* Lines 158-162.
LfLeaveAlternateScreen ==
    /\ pc = "leave_alternate_screen"
    /\ \/ /\ aux' = [aux EXCEPT !.left = TRUE]
          /\ pc' = "save_buffers"
          /\ lastOp' = "leave"
       \/ /\ pc' = "exit_err"
          /\ lastOp' = "leave_failed"
          /\ UNCHANGED aux
    /\ UNCHANGED <<app, stream, submit0, submits>>

\* Line 165.
LfSaveBuffers ==
    /\ pc = "save_buffers"
    /\ app' = save_current_model_buffers(app)
    /\ pc' = "persist1"
    /\ lastOp' = "save_buffers"
    /\ UNCHANGED <<stream, submit0, submits, aux>>

\* Line 168: utils::save_history_to_file(&app.history)?
LfSaveHistoryToFile ==
    /\ pc = "persist1"
    /\ \E dir \in BOOLEAN, fail \in {{}, {"chat"}} :
           LET out == save_history_to_file(app.history, [dir |-> dir, fail |-> fail])
           IN /\ aux' = [aux EXCEPT !.persist1 = out.result]
              /\ pc' = IF out.result = "ok" THEN "persist2" ELSE "exit_err"
    /\ lastOp' = "persist1"
    /\ UNCHANGED <<app, stream, submit0, submits>>

\* app.model_histories with its keys spelled as file names are.
NamedHistories(a) ==
    [n \in {<<m>> : m \in DOMAIN a.model_histories} |-> a.model_histories[n[1]]]

\* Line 169: utils::save_model_histories(&app.model_histories)?, then Ok(()).
LfSaveModelHistories ==
    /\ pc = "persist2"
    /\ \E dir \in BOOLEAN, ts \in Timestamps,
          order \in Orders(DOMAIN NamedHistories(app)),
          fail \in SUBSET (DOMAIN NamedHistories(app)) :
           LET out == save_model_histories(NamedHistories(app),
                          [dir |-> dir, ts |-> ts, order |-> order, fail |-> fail])
           IN /\ aux' = [aux EXCEPT !.persist2 = out.result]
              /\ pc' = IF out.result = "ok" THEN "exit_ok" ELSE "exit_err"
    /\ lastOp' = "persist2"
    /\ UNCHANGED <<app, stream, submit0, submits>>

LfNext ==
    \/ LfEnableRawMode
    \/ LfEnterAlternateScreen
    \/ LfAppNew
    \/ InitialDraw
    \/ PollFails
    \/ PollTimeout
    \/ KeyCtrlQ
    \/ KeyDown
    \/ KeyChar
    \/ KeyEnterQuery
    \/ OpenOk
    \/ OpenFails
    \/ StreamBatch
    \/ StreamEnd
    \/ AfterQueryDraw
    \/ LfDisableRawMode
    \/ LfLeaveAlternateScreen
    \/ LfSaveBuffers
    \/ LfSaveHistoryToFile
    \/ LfSaveModelHistories

LifeSpec == LfInit /\ [][LfNext]_vars

Returned == pc \in {"exit_ok", "exit_err"}

\* C27: a failure of the combined-transcript write or of a per-model write at
\* shutdown is not fatal: main returns Ok, and after a failed first persist
\* call the second one is still made.
C27_PersistFailureNonFatal ==
    /\ (Returned /\ aux.persist1 = "err") => (pc = "exit_ok" /\ aux.persist2 # "none")
    /\ (Returned /\ aux.persist2 = "err") => pc = "exit_ok"

\* C28: whenever main has returned after raw mode was enabled,
\* disable_raw_mode and LeaveAlternateScreen have been executed.
C28_TerminalRestoredOnEveryExit ==
    (Returned /\ aux.raw_enabled) => (aux.disabled /\ aux.left)

\* The active input, cursor, transcript and scroll of a.
ActiveScalars(a) == <<a.input, a.cursor_pos, a.history, a.scroll>>

\* The call has set the selection: a move in a non-empty list, or a refresh
\* whose listing holds a model.
SetsSelection ==
    \/ lastOp \in {"select_next_model", "select_previous_model"} /\ aux.pre.models # <<>>
    \/ lastOp = "refresh_models" /\ aux.listing.ok /\ aux.listing.names # <<>>

\* What "saved before loaded" comes to for the model that was selected
\* before the call: its record holds the active scalars of before the call,
\* or, when it is the selected model again, they are the active scalars still.
OutgoingKept ==
    LET out == ModelAt(aux.pre, aux.pre.list_state)
    IN IF HasModelAt(app, app.list_state) /\ ModelAt(app, app.list_state) = out
       THEN ActiveScalars(app) = ActiveScalars(aux.pre)
       ELSE HasRecord(app, out) /\ Record(app, out) = ActiveScalars(aux.pre)

\* C29: every call that sets the selection (select_next_model,
\* select_previous_model, refresh_models with a non-empty listing) saves the
\* active input, cursor, transcript and scroll of the model selected so far
\* before it loads the record of the model selected now, so that nothing
\* typed or shown is lost.
C29_SelectionChangeSavesThenLoads ==
    (SetsSelection /\ HasModelAt(aux.pre, aux.pre.list_state)) => OutgoingKept

\* The same for the two moves alone.
MovesSaveThenLoad ==
    (SetsSelection /\ lastOp # "refresh_models" /\ HasModelAt(aux.pre, aux.pre.list_state))
        => OutgoingKept

C32_OneExchangeInFlight ==
    [][ submits' # submits =>
            /\ pc = "loop"
            /\ ~submit0.active
            /\ ~app.is_loading
            /\ stream = <<>>
            /\ submits' = submits + 1 ]_vars

\* A second submit has started after the first one has returned.
C32_Witness ==
    /\ submits = 2
    /\ pc = "opening"
    /\ submit0.active
    /\ IsSuffix(Separator, submit0.history)
    /\ app.is_loading

\* C33: in the event loop a character key without Control has the effect of
\* insert_char on the input and the cursor, and Backspace the effect of
\* backspace.
C33_KeysActAsEditorOps ==
    [][ /\ KeyChar =>
               \E c \in KeyChars :
                   /\ app'.input = insert_char(app, c).input
                   /\ app'.cursor_pos = insert_char(app, c).cursor_pos
        /\ KeyBackspace =>
               /\ app'.input = backspace(app).input
               /\ app'.cursor_pos = backspace(app).cursor_pos ]_vars

(***************************************************************************)
(* Further properties of the editor (WordSpec, EditorSpec)                 *)
(***************************************************************************)
\* s without its i-th character (i counted from 1).
Without(s, i) == [j \in 1..(Len(s) - 1) |-> IF j < i THEN s[j] ELSE s[j + 1]]

\* C34: backspace removes exactly the character before the cursor and moves
\* the cursor back by one, and changes nothing at all with the cursor at 0;
\* delete_forward removes exactly the character at the cursor and leaves the
\* cursor, and changes nothing at all with the cursor at the end; the other
\* characters stay in their order.
C34_DeleteExactlyOne ==
    LET s == aux.pre.input
        k == aux.pre.cursor_pos
    IN /\ lastOp = "backspace" =>
              IF k = 0 THEN app = aux.pre
              ELSE /\ ~app.panicked
                   /\ app.input = Without(s, k)
                   /\ app.cursor_pos = k - 1
       /\ lastOp = "delete_forward" =>
              IF k >= Len(s) THEN app = aux.pre
              ELSE /\ ~app.panicked
                   /\ app.input = Without(s, k + 1)
                   /\ app.cursor_pos = k

\* delete_forward has removed a character that follows a character of
\* several bytes, and backspace one that is of several bytes itself.
C34_Witness ==
    \/ /\ lastOp = "delete_forward"
       /\ aux.pre.input = <<UUml, "A", Crab>>
       /\ aux.pre.cursor_pos = 1
       /\ app.input = <<UUml, Crab>>
    \/ /\ lastOp = "backspace"
       /\ aux.pre.input = <<"A", Crab>>
       /\ aux.pre.cursor_pos = 2
       /\ app.input = <<"A">>

\* The editor with the caret in either phase of its blink; aux.pre is the App
\* before the last call.
BlInit ==
    /\ app \in {[NewApp EXCEPT !.input = s, !.cursor_pos = k,
                               !.cursor_visible = v, !.blink_due = d] :
                    s \in StringsUpTo(EdChars, MaxInputLen), k \in 0..MaxInputLen,
                    v \in BOOLEAN, d \in BOOLEAN}
    /\ app.cursor_pos <= Len(app.input)
    /\ pc = "api"
    /\ stream = <<>>
    /\ submit0 = NoSubmit
    /\ submits = 0
    /\ lastOp = "init"
    /\ aux = [pre |-> app]

BlCall(op, a) ==
    /\ pc = "api"
    /\ app' = a
    /\ lastOp' = op
    /\ aux' = [pre |-> app]
    /\ UNCHANGED <<pc, stream, submit0, submits>>

BlInsertChar ==
    \E c \in EdChars :
        /\ Len(app.input) < MaxInputLen
        /\ BlCall("insert_char", insert_char(app, c))
BlBackspace == BlCall("backspace", backspace(app))
BlDeleteForward == BlCall("delete_forward", delete_forward(app))
BlDeleteWordLeft == BlCall("delete_word_left", delete_word_left(app))
BlDeleteWordRight == BlCall("delete_word_right", delete_word_right(app))
BlMoveCursorLeft == BlCall("move_cursor_left", move_cursor_left(app))
BlMoveCursorRight == BlCall("move_cursor_right", move_cursor_right(app))
BlMoveCursorHome == BlCall("move_cursor_home", move_cursor_home(app))
BlMoveCursorEnd == BlCall("move_cursor_end", move_cursor_end(app))
BlMoveCursorWordLeft == BlCall("move_cursor_word_left", move_cursor_word_left(app))
BlMoveCursorWordRight == BlCall("move_cursor_word_right", move_cursor_word_right(app))
BlUpdateCursorBlink == BlCall("update_cursor_blink", update_cursor_blink(app))
\* 500 ms pass since last_cursor_blink.
BlTimePasses ==
    /\ ~app.blink_due
    /\ BlCall("time", [app EXCEPT !.blink_due = TRUE])

BlNext ==
    \/ BlInsertChar
    \/ BlBackspace
    \/ BlDeleteForward
    \/ BlDeleteWordLeft
    \/ BlDeleteWordRight
    \/ BlMoveCursorLeft
    \/ BlMoveCursorRight
    \/ BlMoveCursorHome
    \/ BlMoveCursorEnd
    \/ BlMoveCursorWordLeft
    \/ BlMoveCursorWordRight
    \/ BlUpdateCursorBlink
    \/ BlTimePasses

BlinkSpec == BlInit /\ [][BlNext]_vars

EditingOps ==
    {"insert_char", "backspace", "delete_forward", "delete_word_left", "delete_word_right",
     "move_cursor_left", "move_cursor_right", "move_cursor_home", "move_cursor_end",
     "move_cursor_word_left", "move_cursor_word_right"}

\* C35: right after every editor call (insert, backspace, delete, word
\* delete, cursor move) that has changed the input or the cursor position,
\* cursor_visible is true and the blink timer has just been restarted,
\* whatever the phase of the caret before the call.
C35_CaretVisibleAfterEdit ==
    (/\ lastOp \in EditingOps
     /\ (app.input # aux.pre.input \/ app.cursor_pos # aux.pre.cursor_pos)) =>
        (app.cursor_visible /\ ~app.blink_due)

\* A cursor move from a hidden caret whose blink was due.
C35_Witness ==
    /\ lastOp = "move_cursor_left"
    /\ ~aux.pre.cursor_visible
    /\ aux.pre.blink_due
    /\ app.cursor_pos = aux.pre.cursor_pos - 1
    /\ app.cursor_visible

\* The stored records of the models other than m are the same in a and b.
OtherRecordsSame(a, b, m) ==
    \A n \in ModelIds \ {m} :
        /\ HasRecord(a, n) <=> HasRecord(b, n)
        /\ HasRecord(a, n) => Record(a, n) = Record(b, n)

\* C36: Ctrl+C empties the active transcript and the stored transcript of the
\* selected model, sets scroll to 0 and autoscroll to true, and leaves the
\* active input, the cursor, the selection, the model list and the record of
\* every other model as they were; and a switch to a model shows what is
\* stored for it, so the cleared transcript does not come back.
C36_ClearIsLocalAndLasting ==
    [][ /\ KeyCtrlC =>
               /\ app'.history = <<>>
               /\ app'.scroll = 0
               /\ app'.autoscroll
               /\ app'.input = app.input
               /\ app'.cursor_pos = app.cursor_pos
               /\ app'.list_state = app.list_state
               /\ app'.models = app.models
               /\ HasModelAt(app, app.list_state) =>
                      /\ StoredTranscript(app', ModelAt(app, app.list_state)) = <<>>
                      /\ HasRecord(app', ModelAt(app, app.list_state))
                      /\ Record(app', ModelAt(app, app.list_state))[3] = <<>>
                      /\ OtherRecordsSame(app, app', ModelAt(app, app.list_state))
        /\ ((KeyUp \/ KeyDown) /\ HasModelAt(app', app'.list_state)) =>
               app'.history = TranscriptOf(app, ModelAt(app', app'.list_state)) ]_vars

\* Two submits have been made, yet the selected first model has an empty
\* transcript, active and stored, next to a second model with a transcript
\* of its own: a transcript has been cleared.
C36_Witness ==
    /\ pc = "loop"
    /\ submits = 2
    /\ Len(app.models) = 2
    /\ app.list_state = 0
    /\ app.history = <<>>
    /\ StoredTranscript(app, "m1") = <<>>
    /\ StoredTranscript(app, "m2") # <<>>
    /\ IsSuffix(Separator, StoredTranscript(app, "m2"))
    /\ Len(StoredTranscript(app, "m2")) < 2 * Len(PromptBlock(<<"h">>) \o Separator)

\* C37: no step of the event loop taken while a model A is selected (a key,
\* a submit and its fragments, a clear, a save, a switch away) changes the
\* stored input, cursor, transcript and scroll of another model B.
C37_OtherRecordsUntouched ==
    [][ HasModelAt(app, app.list_state) =>
            OtherRecordsSame(app, app', ModelAt(app, app.list_state)) ]_vars

\* An exchange with m2 has ended while m1 holds a transcript of its own.
C37_Witness ==
    /\ pc = "returned"
    /\ app.list_state = 1
    /\ submit0.model = "m2"
    /\ HasRecord(app, "m1")
    /\ Record(app, "m1")[3] # <<>>
    /\ Record(app, "m2")[3] # Record(app, "m1")[3]
    /\ Delivered(stream) # <<>>

\* C38: between the start of a submit and its end no key is handled: the
\* selection, the model list and the empty input stay as they are, every
\* fragment goes to the active transcript, and at the end that transcript is
\* saved into the record of the model that was selected at the start.
C38_SubmitStaysOnItsModel ==
    [][ (submit0.active /\ pc \in {"opening", "streaming"}) =>
            /\ app'.list_state = app.list_state
            /\ app'.models = app.models
            /\ app'.input = app.input
            /\ ModelAt(app', app'.list_state) = submit0.model
            /\ IsPrefix(app.history, app'.history)
            /\ app'.history = submit0.history \o PromptBlock(submit0.prompt)
                                  \o Delivered(stream')
                                  \o (IF pc' = "returned" THEN Separator ELSE <<>>)
            /\ pc' = "returned" =>
                   /\ StoredTranscript(app', submit0.model) = app'.history
                   /\ OtherRecordsSame(app, app', submit0.model) ]_vars

\* An exchange with the second of two models has ended with two batches.
C38_Witness ==
    /\ pc = "returned"
    /\ submit0.active
    /\ submit0.model = "m2"
    /\ app.list_state = 1
    /\ Len(stream) = 2
    /\ stream[1].ok /\ stream[2].ok
    /\ StoredTranscript(app, "m2") = app.history

(***************************************************************************)
(* The exchange of the scenario with a stream that ends                    *)
(***************************************************************************)
\* A finite stream yields None after its last item and the runtime polls it
\* as long as send_query awaits it: the end of the stream is not put off
\* forever.
FairScenarioSpec == ScenarioSpec /\ WF_vars(StreamEnd)

\* C39: every submit whose stream has been opened terminates: whatever
\* successful and failed batches the finite stream delivers, send_query
\* returns with is_loading false, unless a redraw fails on the way.
C39_SubmitTerminates ==
    (pc = "streaming") ~> ((pc = "returned" /\ ~app.is_loading) \/ lastOp = "draw_failed")

\* send_query has returned from a stream of a failed and a successful batch.
C39_Witness ==
    /\ aux.step = "submitted"
    /\ pc = "returned"
    /\ ~app.is_loading
    /\ lastOp = "stream_end"
    /\ Len(stream) = 2
    /\ ~stream[1].ok
    /\ stream[2].ok

\* C40: within one call of save_model_histories that fails nowhere, any two
\* different model names with non-empty histories are written to two
\* different paths, so that after the call every such history is the content
\* of its file.
C40_NoTranscriptOverwritten ==
    (lastOp = "save_model_histories" /\ aux.out.result = "ok") =>
        LET mh == aux.model_histories
        IN /\ \A n1, n2 \in NonEmptyNames(mh) :
                  n1 # n2 => FileName(n1, aux.env.ts) # FileName(n2, aux.env.ts)
           /\ \A n \in NonEmptyNames(mh) :
                  /\ FileName(n, aux.env.ts) \in DOMAIN aux.out.files
                  /\ aux.out.files[FileName(n, aux.env.ts)] = mh[n]

====
